---------------------------- MODULE Spec2Model ----------------------------
(***************************************************************************)
(* A model of PersonalFinanceHub: the persistence layer                    *)
(* (add_transactions.py), the per-source orchestration (main.py and the    *)
(* issuer read_files), the category resolution (ai_helper.py,              *)
(* vendor_mapping.py, database_fixes/update_categories.py) and the Chase   *)
(* statement reader (chase_statement_reader.py).                           *)
(*                                                                         *)
(* Python strings are modelled as tuples of one-character strings, so that *)
(* str.lower(), str.strip(), the `in` substring test and the regular       *)
(* expressions act on them character by character.                         *)
(***************************************************************************)
EXTENDS Integers, Sequences, FiniteSets, Bags, TLC

VARIABLES
  \* ---- category resolution (ai_helper / vendor_mapping / update_categories)
  ai_pc,        \* "idle", or the call that has just returned
  ai_in,        \* the arguments of that call
  ai_out,       \* what it returned
  \* ---- statement year (chase_statement_reader)
  yr_pc,        \* "closed", "open" (the PDF is open), "done"
  yr_in,        \* the page-1 text, and how it was put together
  yr_now,       \* datetime.now().year
  yr_out,       \* what extract_statement_year returned
  \* ---- main and process_transactions (main.py, add_transactions.py)
  files,            \* per source, the list glob.glob returned
  readable,         \* the files pd.read_csv can read
  disk,             \* the files that exist
  main_pc,          \* the source main is at, or "done"
  main_error,       \* main's except clause has run
  called,           \* the sources whose process_transactions was called
  p_pc,             \* where process_transactions is
  processed_files,  \* the list object that is both file_paths and
                    \* self.processed_files (line 174 binds, does not copy)
  it,               \* how many items read_files' for loop has taken
  dataframes,       \* read_files' list of frames, one per file read
  add_result,       \* how add_to_database ended in this run
  deleted,          \* the files this run has removed
  p_store,          \* the files whose rows the store holds
  \* ---- the store and add_to_database (add_transactions.py)
  t_categories,     \* budget_app.spending_categories, committed: {[id, name]}
  t_persons,        \* budget_app.persons, committed
  t_account_type,   \* budget_app.account_type, committed
  t_transactions,   \* budget_app.transactions, committed: a bag of rows
  seq,              \* the last value of each table's id sequence
  w_categories,     \* the tables as the open connection's transaction
  w_persons,        \*   sees them: the committed rows and its own writes
  w_account_type,
  w_transactions,
  category_cache,       \* self._category_cache: lowercased name -> id
  person_cache,         \* self._person_cache
  account_type_cache,   \* self._account_type_cache
  db_pc,            \* where add_to_database is
  batch,            \* its argument `transactions`
  idx,              \* how many transactions of the batch are done
  ids,              \* category_id, person_id, account_type_id of this turn
  db_result,        \* "none", "True", or the exception raised
  runs,             \* calls of add_to_database so far
  pre,              \* the committed tables when the call began
  last_batch,       \* the batch of the last call that committed, if any
  repeat,           \* this call's batch is last_batch, with no commit between
  conn,             \* add_to_database's connection: "none", "open", "closed"
  inputs,           \* the transactions the callers may pass
  \* ---- get_categories_from_db (add_transactions.py)
  gc_pc,            \* "idle", "connected", "returned"
  gc_conn,          \* its connection: "none", "open", "closed"
  gc_out,           \* the list it returned
  \* ---- the classifier as clean_data calls it, between add_to_database calls
  consulted,        \* guess_category_openai has been called
  allowed,          \* the list of categories of its last call
  known,            \* the category names the store held at that call (kept
                    \* for the properties only)
  \* ---- the vendor table and its lookups (vendor_mapping.py)
  vendor_map,       \* the dict VENDOR_CATEGORY_MAP, in insertion order
  v_pc,             \* "idle", or "returned" after get_category_from_vendor
  v_merchant,       \* the merchant name of the last lookup
  v_out,            \* what the last lookup returned
  \* ---- two add_to_database calls at once, each on its own connection
  r_categories,     \* budget_app.spending_categories, committed
  r_transactions,   \* budget_app.transactions, committed
  r_seq,            \* the last value of the category id sequence
  r_pc,             \* per worker, where its add_to_database is
  r_batch,          \* per worker, the category of each of its transactions
  r_idx,            \* per worker, how many of them are done
  r_cache,          \* per worker, its _category_cache
  r_work,           \* per worker, the category rows its open transaction
                    \* has inserted
  r_rows,           \* per worker, the transaction rows it has inserted
  r_result,         \* per worker, "none", "True" or the exception raised
  \* ---- extract_transactions (chase_statement_reader, pdf_statement_reader)
  pdf_pc,           \* "closed", "lines", "done", "raised"
  pdf_pages,        \* page.extract_text() of each page of the statement
  pdf_now,          \* datetime.now().year
  statement_year,   \* what extract_statement_year returned
  pdf_lines,        \* text.split('\n') of every page, one after another
  line_no,          \* how many lines the for loop has taken
  pdf_transactions, \* the list `transactions`
  pdf_from,         \* for each of its records, the number of the line it
                    \* was read from (kept for the properties only)
  pdf_df,           \* the DataFrame returned
  \* ---- clean_data and prepare_data_for_db of the issuers
  cl_pc,            \* "read", "cleaned", "prepared", "raised"
  cl_issuer,        \* whose processor it is
  cl_df,            \* self.df as read_files left it
  cl_env,           \* the category cache's keys and the model's behaviour
  cl_clean,         \* self.df as clean_data left it
  cl_calls,         \* the merchant names the model was invoked with
  cl_out            \* the list prepare_data_for_db returned

aiVars == <<ai_pc, ai_in, ai_out>>
yrVars == <<yr_pc, yr_in, yr_now, yr_out>>
procVars == <<files, readable, disk, main_pc, main_error, called, p_pc,
              processed_files, it, dataframes, add_result, deleted, p_store>>

dbStore == <<t_categories, t_persons, t_account_type, t_transactions>>
dbWork == <<w_categories, w_persons, w_account_type, w_transactions>>
dbCache == <<category_cache, person_cache, account_type_cache>>
dbVars == <<dbStore, seq, dbWork, dbCache, db_pc, batch, idx, ids, db_result,
            runs, pre, last_batch, repeat, conn, inputs>>

pdfVars == <<pdf_pc, pdf_pages, pdf_now, statement_year, pdf_lines, line_no,
             pdf_transactions, pdf_from, pdf_df>>

cleanVars == <<cl_pc, cl_issuer, cl_df, cl_env, cl_clean, cl_calls, cl_out>>
gcVars == <<gc_pc, gc_conn, gc_out>>
instVars == <<consulted, allowed, known>>
vendVars == <<vendor_map, v_pc, v_merchant, v_out>>
raceVars == <<r_categories, r_transactions, r_seq, r_pc, r_batch, r_idx,
              r_cache, r_work, r_rows, r_result>>

\* the parts of the program other than the four above
extVars == <<pdfVars, cleanVars, gcVars, raceVars, instVars, vendVars>>

vars == <<aiVars, yrVars, procVars, dbVars, extVars>>

\* what an action of extract_transactions leaves alone
pdfRest == <<aiVars, yrVars, procVars, dbVars, cleanVars, gcVars, raceVars, instVars,
             vendVars>>

\* what an action of the cleaners leaves alone
cleanRest == <<aiVars, yrVars, procVars, dbVars, pdfVars, gcVars, raceVars, instVars,
             vendVars>>

\* what an action of get_categories_from_db leaves alone
gcRest == <<aiVars, yrVars, procVars, dbVars, pdfVars, cleanVars, raceVars, instVars,
             vendVars>>

\* what an action of the concurrent calls leaves alone
raceRest == <<aiVars, yrVars, procVars, dbVars, pdfVars, cleanVars, gcVars,
             instVars, vendVars>>

\* what a call of the classifier from clean_data leaves alone
instRest == <<aiVars, yrVars, procVars, dbVars, pdfVars, cleanVars, gcVars,
             raceVars, vendVars>>

\* what the vendor table's functions leave alone
vendRest == <<aiVars, yrVars, procVars, dbVars, pdfVars, cleanVars, gcVars,
             raceVars, instVars>>

(* Each part of the program is checked on its own; the others then rest. *)

\* no categorization call is under way
IdleAI ==
  /\ ai_pc = "idle"
  /\ ai_in = <<>>
  /\ ai_out = <<>>

\* main has not been started
IdleProc ==
  /\ files = <<>>
  /\ readable = {}
  /\ disk = {}
  /\ main_pc = "done"
  /\ main_error = FALSE
  /\ called = {}
  /\ p_pc = "idle"
  /\ processed_files = <<>>
  /\ it = 0
  /\ dataframes = <<>>
  /\ add_result = "none"
  /\ deleted = {}
  /\ p_store = {}

\* an empty store and no call of add_to_database
IdleDB ==
  /\ t_categories = {} /\ t_persons = {} /\ t_account_type = {}
  /\ t_transactions = <<>>
  /\ seq = <<>>
  /\ w_categories = {} /\ w_persons = {} /\ w_account_type = {}
  /\ w_transactions = <<>>
  /\ category_cache = <<>> /\ person_cache = <<>>
  /\ account_type_cache = <<>>
  /\ db_pc = "idle"
  /\ batch = <<>>
  /\ idx = 0
  /\ ids = <<>>
  /\ db_result = "none"
  /\ runs = 0
  /\ pre = <<>>
  /\ last_batch = {}
  /\ repeat = FALSE
  /\ conn = "none"
  /\ inputs = {}

\* no statement is being parsed
IdlePdf ==
  /\ pdf_pc = "closed"
  /\ pdf_pages = <<>>
  /\ pdf_now = 2026
  /\ statement_year = 0
  /\ pdf_lines = <<>>
  /\ line_no = 0
  /\ pdf_transactions = <<>>
  /\ pdf_from = <<>>
  /\ pdf_df = <<>>

\* no cleaner is at work
IdleClean ==
  /\ cl_pc = "idle"
  /\ cl_issuer = "none"
  /\ cl_df = <<>>
  /\ cl_env = <<>>
  /\ cl_clean = <<>>
  /\ cl_calls = <<>>
  /\ cl_out = <<>>

\* get_categories_from_db is not being called
IdleGc ==
  /\ gc_pc = "idle"
  /\ gc_conn = "none"
  /\ gc_out = <<>>

\* no concurrent calls
IdleRace ==
  /\ r_categories = {}
  /\ r_transactions = {}
  /\ r_seq = 0
  /\ r_pc = <<>>
  /\ r_batch = <<>>
  /\ r_idx = <<>>
  /\ r_cache = <<>>
  /\ r_work = <<>>
  /\ r_rows = <<>>
  /\ r_result = <<>>

\* the classifier has not been called
IdleInst ==
  /\ consulted = FALSE
  /\ allowed = <<>>
  /\ known = {}

\* the vendor table is not in use
IdleVend ==
  /\ vendor_map = <<>>
  /\ v_pc = "idle"
  /\ v_merchant = <<>>
  /\ v_out = <<>>

IdleExt ==
  IdlePdf /\ IdleClean /\ IdleGc /\ IdleRace /\ IdleInst /\ IdleVend

\* no statement is open
IdleYear ==
  /\ yr_pc = "closed"
  /\ yr_in = <<>>
  /\ yr_now = 2026
  /\ yr_out = 0

-----------------------------------------------------------------------------
(* Bounds of the model *)

\* the longest batch handed to add_to_database
MaxBatch == 2
\* the number of calls of add_to_database
MaxRuns == 2
\* the largest number of files glob finds for one source
MaxFiles == 3
\* the longest list of allowed categories handed to the classifier
MaxCats == 2
\* the largest number of rows in a data frame handed to add_category
MaxRows == 2

-----------------------------------------------------------------------------
(* Strings *)

Range(s) == { s[i] : i \in DOMAIN s }

\* every sequence over S of length at most n
SeqsUpTo(S, n) == UNION { [1..k -> S] : k \in 0..n }

UpperToLower ==
  [ A |-> "a", B |-> "b", C |-> "c", D |-> "d", E |-> "e", F |-> "f",
    G |-> "g", H |-> "h", I |-> "i", J |-> "j", K |-> "k", L |-> "l",
    M |-> "m", N |-> "n", O |-> "o", P |-> "p", Q |-> "q", R |-> "r",
    S |-> "s", T |-> "t", U |-> "u", V |-> "v", W |-> "w", X |-> "x",
    Y |-> "y", Z |-> "z" ]

\* str.lower()
Lower(s) ==
  [ i \in DOMAIN s |->
      IF s[i] \in DOMAIN UpperToLower THEN UpperToLower[s[i]] ELSE s[i] ]

\* `sub in s` on strings: sub occurs in s as a contiguous substring
Contains(sub, s) ==
  \E i \in 0..(Len(s) - Len(sub)) : SubSeq(s, i + 1, i + Len(sub)) = sub

Whitespace == { " ", "\n", "\t" }

\* str.strip(): leading and trailing whitespace removed
Strip(s) ==
  LET keep == { i \in DOMAIN s : s[i] \notin Whitespace }
  IN  IF keep = {} THEN <<>>
      ELSE LET lo == CHOOSE i \in keep : \A j \in keep : i <= j
               hi == CHOOSE i \in keep : \A j \in keep : j <= i
           IN  SubSeq(s, lo, hi)

\* values that are not strings: Python's None and the float NaN that pandas
\* puts in an empty cell
None == << "None" >>
NaN == << "NaN" >>

Other == <<"O","t","h","e","r">>
RefundsAndReturns ==
  <<"R","e","f","u","n","d","s"," ","&"," ","R","e","t","u","r","n","s">>
Payments == <<"P","a","y","m","e","n","t","s">>
Shopping == <<"S","h","o","p","p","i","n","g">>

-----------------------------------------------------------------------------
(* vendor_mapping.py *)

\* the dict literal, in insertion order: << pattern, category >>
VENDOR_CATEGORY_MAP ==
  <<
    << <<"g","l","o","b","a","l"," ","b","i","k","e">>, <<"H","o","b","b","y">> >>,
    << <<"M","B","O">>, <<"H","o","b","b","y">> >>,
    << <<"r","a","p","h","a">>, <<"H","o","b","b","y">> >>,
    << <<"s","p","e","c","i","a","l","i","z","e","d">>, <<"H","o","b","b","y">> >>,
    << <<"p","a","y","m","e","n","t">>, <<"P","a","y","m","e","n","t","s">> >>,
    << <<"p","a","y","p","a","l">>, <<"P","a","y","m","e","n","t","s">> >>,
    << <<"v","e","n","m","o">>, <<"P","a","y","m","e","n","t","s">> >>,
    << <<"s","t","r","i","p","e">>, <<"P","a","y","m","e","n","t","s">> >>,
    << <<"s","q","u","a","r","e">>, <<"P","a","y","m","e","n","t","s">> >>,
    << <<"w","h","o","l","e"," ","f","o","o","d","s">>, <<"G","r","o","c","e","r","i","e","s">> >>,
    << <<"t","r","a","d","e","r"," ","j","o","e">>, <<"G","r","o","c","e","r","i","e","s">> >>,
    << <<"s","a","f","e","w","a","y">>, <<"G","r","o","c","e","r","i","e","s">> >>,
    << <<"k","r","o","g","e","r">>, <<"G","r","o","c","e","r","i","e","s">> >>,
    << <<"s","p","r","o","u","t","s">>, <<"G","r","o","c","e","r","i","e","s">> >>,
    << <<"C","O","S","T","C","O"," ","W","H","S","E">>, <<"G","r","o","c","e","r","i","e","s">> >>,
    << <<"c","o","s","t","c","o",".","c","o","m">>, <<"G","r","o","c","e","r","i","e","s">> >>,
    << <<"g","r","o","c","e","r","y">>, <<"G","r","o","c","e","r","i","e","s">> >>,
    << <<"s","u","p","e","r","m","a","r","k","e","t">>, <<"G","r","o","c","e","r","i","e","s">> >>,
    << <<"L","o","s"," ","A","l","t","o","s"," ","R","a","n","c","h"," ","M","a","r","k","e","t">>, <<"G","r","o","c","e","r","i","e","s">> >>,
    << <<"r","e","s","t","a","u","r","a","n","t">>, <<"D","i","n","i","n","g">> >>,
    << <<"c","a","f","e">>, <<"D","i","n","i","n","g">> >>,
    << <<"c","o","f","f","e","e">>, <<"D","i","n","i","n","g">> >>,
    << <<"b","u","r","g","e","r">>, <<"D","i","n","i","n","g">> >>,
    << <<"p","i","z","z","a">>, <<"D","i","n","i","n","g">> >>,
    << <<"s","u","s","h","i">>, <<"D","i","n","i","n","g">> >>,
    << <<"b","b","q">>, <<"D","i","n","i","n","g">> >>,
    << <<"d","i","n","e","r">>, <<"D","i","n","i","n","g">> >>,
    << <<"b","a","r">>, <<"D","i","n","i","n","g">> >>,
    << <<"p","u","b">>, <<"D","i","n","i","n","g">> >>,
    << <<"m","o","v","i","e">>, <<"E","n","t","e","r","t","a","i","n","m","e","n","t">> >>,
    << <<"c","i","n","e","m","a">>, <<"E","n","t","e","r","t","a","i","n","m","e","n","t">> >>,
    << <<"t","h","e","a","t","e","r">>, <<"E","n","t","e","r","t","a","i","n","m","e","n","t">> >>,
    << <<"c","o","n","c","e","r","t">>, <<"E","n","t","e","r","t","a","i","n","m","e","n","t">> >>,
    << <<"g","a","m","e">>, <<"E","n","t","e","r","t","a","i","n","m","e","n","t">> >>,
    << <<"e","l","e","c","t","r","i","c">>, <<"U","t","i","l","i","t","i","e","s">> >>,
    << <<"w","a","t","e","r">>, <<"U","t","i","l","i","t","i","e","s">> >>,
    << <<"g","a","s"," ","c","o","m","p","a","n","y">>, <<"U","t","i","l","i","t","i","e","s">> >>,
    << <<"i","n","t","e","r","n","e","t">>, <<"U","t","i","l","i","t","i","e","s">> >>,
    << <<"p","h","o","n","e">>, <<"U","t","i","l","i","t","i","e","s">> >>,
    << <<"c","o","m","c","a","s","t">>, <<"U","t","i","l","i","t","i","e","s">> >>,
    << <<"v","e","r","i","z","o","n">>, <<"U","t","i","l","i","t","i","e","s">> >>,
    << <<"a","t","&","t">>, <<"U","t","i","l","i","t","i","e","s">> >>,
    << <<"t","-","m","o","b","i","l","e">>, <<"U","t","i","l","i","t","i","e","s">> >>,
    << <<"V","I","S","I","B","L","E"," ","8","6","6">>, <<"U","t","i","l","i","t","i","e","s">> >>,
    << <<"C","I","T","Y"," ","O","F"," ","C","H","A","N","D","L","E","R">>, <<"U","t","i","l","i","t","i","e","s">> >>,
    << <<"C","O","X"," ","P","H","O","E","N","I","X">>, <<"U","t","i","l","i","t","i","e","s">> >>,
    << <<"u","b","e","r">>, <<"T","r","a","n","s","p","o","r","t","a","t","i","o","n">> >>,
    << <<"l","y","f","t">>, <<"T","r","a","n","s","p","o","r","t","a","t","i","o","n">> >>,
    << <<"t","a","x","i">>, <<"T","r","a","n","s","p","o","r","t","a","t","i","o","n">> >>,
    << <<"a","i","r","l","i","n","e">>, <<"T","r","a","n","s","p","o","r","t","a","t","i","o","n">> >>,
    << <<"h","o","t","e","l">>, <<"T","r","a","n","s","p","o","r","t","a","t","i","o","n">> >>,
    << <<"p","a","r","k","i","n","g">>, <<"T","r","a","n","s","p","o","r","t","a","t","i","o","n">> >>,
    << <<"t","r","a","n","s","i","t">>, <<"T","r","a","n","s","p","o","r","t","a","t","i","o","n">> >>,
    << <<"C","O","S","T","C","O"," ","G","A","S">>, <<"T","r","a","n","s","p","o","r","t","a","t","i","o","n">> >>,
    << <<"a","m","a","z","o","n">>, <<"S","h","o","p","p","i","n","g">> >>,
    << <<"w","a","l","m","a","r","t">>, <<"S","h","o","p","p","i","n","g">> >>,
    << <<"t","a","r","g","e","t">>, <<"S","h","o","p","p","i","n","g">> >>,
    << <<"b","e","s","t","b","u","y">>, <<"S","h","o","p","p","i","n","g">> >>,
    << <<"m","a","l","l">>, <<"S","h","o","p","p","i","n","g">> >>,
    << <<"s","t","o","r","e">>, <<"S","h","o","p","p","i","n","g">> >>,
    << <<"p","h","a","r","m","a","c","y">>, <<"H","e","a","l","t","h","c","a","r","e">> >>,
    << <<"d","o","c","t","o","r">>, <<"H","e","a","l","t","h","c","a","r","e">> >>,
    << <<"h","o","s","p","i","t","a","l">>, <<"H","e","a","l","t","h","c","a","r","e">> >>,
    << <<"c","l","i","n","i","c">>, <<"H","e","a","l","t","h","c","a","r","e">> >>,
    << <<"c","v","s">>, <<"H","e","a","l","t","h","c","a","r","e">> >>,
    << <<"w","a","l","g","r","e","e","n","s">>, <<"H","e","a","l","t","h","c","a","r","e">> >>,
    << <<"g","y","m">>, <<"H","e","a","l","t","h","c","a","r","e">> >>,
    << <<"d","o","g">>, <<"D","o","g"," ","C","a","r","e">> >>,
    << <<"v","e","t">>, <<"D","o","g"," ","C","a","r","e">> >>,
    << <<"p","e","t">>, <<"D","o","g"," ","C","a","r","e">> >>,
    << <<"p","e","t","c","o">>, <<"D","o","g"," ","C","a","r","e">> >>,
    << <<"p","e","t","s","m","a","r","t">>, <<"D","o","g"," ","C","a","r","e">> >>,
    << <<"s","u","b","s","c","r","i","p","t","i","o","n">>, <<"S","u","b","s","c","r","i","p","t","i","o","n","s">> >>,
    << <<"s","u","b","s","c","r","i","p","t","i","o","n"," ","s","e","r","v","i","c","e">>, <<"S","u","b","s","c","r","i","p","t","i","o","n","s">> >>,
    << <<"s","p","o","t","i","f","y">>, <<"S","u","b","s","c","r","i","p","t","i","o","n","s">> >>,
    << <<"Y","o","u","T","u","b","e","P","r","e","m","i","u","m">>, <<"S","u","b","s","c","r","i","p","t","i","o","n","s">> >>,
    << <<"O","p","e","n","a","i"," ","*","c","h","a","t","g","p","t">>, <<"S","u","b","s","c","r","i","p","t","i","o","n","s">> >>,
    << <<"C","l","a","u","d","e",".","A","i"," ","S","u","b","s","c","r","i","p","t","i","o","n">>, <<"S","u","b","s","c","r","i","p","t","i","o","n","s">> >>,
    << <<"n","e","t","f","l","i","x">>, <<"S","u","b","s","c","r","i","p","t","i","o","n","s">> >>,
    << <<"h","u","l","u">>, <<"S","u","b","s","c","r","i","p","t","i","o","n","s">> >>,
    << <<"d","i","s","n","e","y">>, <<"S","u","b","s","c","r","i","p","t","i","o","n","s">> >>,
    << <<"r","e","f","u","n","d">>, <<"R","e","f","u","n","d","s"," ","&"," ","R","e","t","u","r","n","s">> >>,
    << <<"r","e","t","u","r","n">>, <<"R","e","f","u","n","d","s"," ","&"," ","R","e","t","u","r","n","s">> >>,
    << <<"c","r","e","d","i","t">>, <<"R","e","f","u","n","d","s"," ","&"," ","R","e","t","u","r","n","s">> >>
  >>

\* table[key] for a key of the dict `table`
VendorLookup(table, key) ==
  LET i == CHOOSE j \in DOMAIN table : table[j][1] = key
  IN  table[i][2]

\* the lookup without the exact match of lines 137-138
VendorCategoryPartialOnly(table, merchant_name) ==
  LET merchant_lower == Lower(merchant_name)
      partial == { j \in DOMAIN table :
                     Contains(Lower(table[j][1]), merchant_lower) }
  IN  IF partial # {}
      THEN table[CHOOSE j \in partial : \A k \in partial : j <= k][2]
      ELSE None

\* get_category_from_vendor over a given state of the dict
VendorCategory(table, merchant_name) ==
  LET merchant_lower == Lower(merchant_name)
      exact == { j \in DOMAIN table : table[j][1] = merchant_lower }
      partial == { j \in DOMAIN table :
                     Contains(Lower(table[j][1]), merchant_lower) }
  IN  IF exact # {} THEN VendorLookup(table, merchant_lower)
      ELSE IF partial # {}
           THEN table[CHOOSE j \in partial : \A k \in partial : j <= k][2]
           ELSE None

get_category_from_vendor(merchant_name) ==
  VendorCategory(VENDOR_CATEGORY_MAP, merchant_name)

-----------------------------------------------------------------------------
(* ai_helper.py *)

\* What self.llm.invoke(messages) can do: return a message with some content,
\* or raise.
LlmRaises == [ kind |-> "raise", content |-> <<>> ]
LlmSays(text) == [ kind |-> "content", content |-> text ]

\* guess_category_openai without the membership test of line 39
guess_category_openai_unchecked(llm, response, merchant_name, categories) ==
  IF ~llm \/ categories = <<>> THEN Other
  ELSE IF response.kind = "raise" THEN Other
  ELSE Strip(response.content)

\* guess_category_openai.  llm: whether self.llm is set; response: what the
\* model does when invoked.
guess_category_openai(llm, response, merchant_name, categories) ==
  IF ~llm \/ categories = <<>> THEN Other
  ELSE IF response.kind = "raise" THEN Other
  ELSE LET category == Strip(response.content)
       IN  IF category \notin Range(categories) THEN Other ELSE category

\* the refund/return rule of add_category, for one row
RefundRule(merchant_name, category) ==
  IF Contains(<<"r","e","t","u","r","n">>, Lower(merchant_name))
     \/ Contains(<<"r","e","f","u","n","d">>, Lower(merchant_name))
  THEN RefundsAndReturns ELSE category

\* the payment rule of add_category, for one row
PaymentRule(merchant_name, category) ==
  IF Contains(<<"p","a","y","m","e","n","t">>, Lower(merchant_name))
  THEN Payments ELSE category

\* add_category with the two rules in the other order: the payment rule
\* first, the refund/return rule last
add_category_refund_last(llm, responses, df, cache_keys) ==
  LET col0(i) == IF df.has_category THEN df.rows[i].category ELSE Other
      col1(i) == PaymentRule(df.rows[i].merchant_name, col0(i))
      col2(i) == RefundRule(df.rows[i].merchant_name, col1(i))
      ai(i) == guess_category_openai(llm, responses[i],
                                     df.rows[i].merchant_name, cache_keys)
      col3(i) == IF col2(i) = Other /\ ai(i) # Other THEN ai(i) ELSE col2(i)
  IN  [ i \in DOMAIN df.rows |->
          [ merchant_name |-> df.rows[i].merchant_name, category |-> col3(i) ] ]

\* add_category.  df: [has_category, rows], rows a sequence of
\* [merchant_name, category]; responses[i]: what the model does when it is
\* invoked for row i; cache_keys: list(category_cache.keys()).
add_category(llm, responses, df, cache_keys) ==
  LET col0(i) == IF df.has_category THEN df.rows[i].category ELSE Other
      col1(i) == RefundRule(df.rows[i].merchant_name, col0(i))
      col2(i) == PaymentRule(df.rows[i].merchant_name, col1(i))
      ai(i) == guess_category_openai(llm, responses[i],
                                     df.rows[i].merchant_name, cache_keys)
      col3(i) == IF col2(i) = Other /\ ai(i) # Other THEN ai(i) ELSE col2(i)
  IN  [ i \in DOMAIN df.rows |->
          [ merchant_name |-> df.rows[i].merchant_name, category |-> col3(i) ] ]

-----------------------------------------------------------------------------
(* database_fixes/update_categories.py *)

\* The loop body of main for one transaction: the category name chosen, and
\* whether the row is updated to it (the name is a key of category_map).
update_category(llm, response, merchant_name, category_names) ==
  LET vendor_category == get_category_from_vendor(merchant_name)
      category_name ==
        IF vendor_category # None /\ vendor_category # <<>>
        THEN vendor_category
        ELSE guess_category_openai(llm, response, merchant_name, category_names)
  IN  [ category_name |-> category_name,
        updated |-> category_name \in Range(category_names) ]

-----------------------------------------------------------------------------
(* add_transactions.py: the store and AddTransactions.add_to_database *)

Hector == <<"H","e","c","t","o","r">>
ChaseCard == <<"C","h","a","s","e"," ","C","a","r","d">>
Zed == <<"Z","e","d">>

\* a canonical transaction, as prepare_data_for_db makes it
Txn(a, c) ==
  [ transaction_date |-> "2024-12-15", amount |-> a, merchant_name |-> Zed,
    category |-> c, person |-> Hector, account_type |-> ChaseCard ]

\* well-formed transactions: the first three differ only in the category
\* label, two of them only in its case
Transactions ==
  { Txn(-4250, Shopping), Txn(-4250, Lower(Shopping)), Txn(-4250, Payments),
    Txn(475, Shopping) }

\* the columns of the constraint unique_transaction
unique_transaction(row) ==
  << row.amount, row.merchant_name, row.category_id, row.person_id,
     row.transaction_date, row.account_type_id >>

\* INSERT INTO budget_app.transactions ... without the ON CONFLICT clause
\* and without the constraint: the row is added
InsertAlways(table, row) == table (+) SetToBag({ row })

\* INSERT INTO budget_app.transactions ... ON CONFLICT ON CONSTRAINT
\* unique_transaction DO NOTHING
InsertOnConflictDoNothing(table, row) ==
  IF \E r \in BagToSet(table) : unique_transaction(r) = unique_transaction(row)
  THEN table
  ELSE table (+) SetToBag({ row })

\* the caches, were the keys the names as stored and not their lowercase
CachesByName(table) ==
  LET keys == { r.name : r \in table }
  IN  { c \in [ keys -> { r.id : r \in table } ] :
          \A k \in keys : \E r \in table : r.name = k /\ r.id = c[k] }

\* The caches _load_reference_data can build from a table: a dict
\* comprehension over the fetched rows, keyed by the lowercased name.  Were
\* two names equal but for case, the row fetched last would win, and the
\* order of a SELECT without ORDER BY is not fixed.
Caches(table) ==
  LET keys == { Lower(r.name) : r \in table }
  IN  { c \in [ keys -> { r.id : r \in table } ] :
          \A k \in keys : \E r \in table : Lower(r.name) = k /\ r.id = c[k] }

\* cache[key] = id added to a dict
Put(cache, key, id) ==
  [ k \in DOMAIN cache \cup { key } |-> IF k = key THEN id ELSE cache[k] ]

\* the stores the program may find: the schema's tables, with or without a
\* category already there
InitDB ==
  /\ \/ t_categories = {} /\ seq = [ categories |-> 0, persons |-> 0,
                                     account_type |-> 0 ]
     \/ t_categories = { [ id |-> 1, name |-> Shopping ] }
        /\ seq = [ categories |-> 1, persons |-> 0, account_type |-> 0 ]
  /\ t_persons = {} /\ t_account_type = {}
  /\ t_transactions = EmptyBag
  /\ w_categories = {} /\ w_persons = {} /\ w_account_type = {}
  /\ w_transactions = EmptyBag
  /\ category_cache = <<>> /\ person_cache = <<>>
  /\ account_type_cache = <<>>
  /\ db_pc = "idle"
  /\ batch = <<>>
  /\ idx = 0
  /\ ids = <<>>
  /\ db_result = "none"
  /\ runs = 0
  /\ pre = <<>>
  /\ last_batch = {}
  /\ repeat = FALSE
  /\ conn = "none"
  /\ inputs = Transactions
  /\ IdleAI
  /\ IdleYear
  /\ IdleProc
  /\ IdleExt

\* add_to_database is called; create_connection opens a connection, whose
\* transaction starts from the committed tables
Connect ==
  /\ db_pc = "idle"
  /\ gc_pc = "idle"
  /\ runs < MaxRuns
  /\ \E transactions \in SeqsUpTo(inputs, MaxBatch) :
       /\ batch' = transactions
       /\ repeat' = (transactions \in last_batch)
  /\ runs' = runs + 1
  /\ w_categories' = t_categories
  /\ w_persons' = t_persons
  /\ w_account_type' = t_account_type
  /\ w_transactions' = t_transactions
  /\ pre' = dbStore
  /\ idx' = 0
  /\ ids' = <<>>
  /\ db_result' = "none"
  /\ db_pc' = "load"
  /\ conn' = "open"
  /\ UNCHANGED <<dbStore, seq, dbCache, last_batch, inputs, aiVars, yrVars, procVars,
                 extVars>>

\* _load_reference_data
LoadReferenceData ==
  /\ db_pc = "load"
  /\ category_cache' \in Caches(w_categories)
  /\ person_cache' \in Caches(w_persons)
  /\ account_type_cache' \in Caches(w_account_type)
  /\ db_pc' = IF batch = <<>> THEN "commit" ELSE "category"
  /\ UNCHANGED <<dbStore, seq, dbWork, batch, idx, ids, db_result, runs, pre,
                 last_batch, repeat, conn, inputs, aiVars, yrVars, procVars,
                 extVars>>

\* _get_or_create_category for the transaction at hand
GetOrCreateCategory ==
  /\ db_pc = "category"
  /\ batch[idx + 1].category \notin { None, NaN }
  /\ LET category == batch[idx + 1].category
         category_lower == Lower(category)
     IN  IF category_lower \notin DOMAIN category_cache
         THEN /\ \A r \in w_categories : r.name # category
              /\ seq' = [ seq EXCEPT !.categories = @ + 1 ]
              /\ w_categories' = w_categories \cup
                   { [ id |-> seq.categories + 1, name |-> category ] }
              /\ category_cache' =
                   Put(category_cache, category_lower, seq.categories + 1)
              /\ ids' = << seq.categories + 1 >>
         ELSE /\ ids' = << category_cache[category_lower] >>
              /\ UNCHANGED <<seq, w_categories, category_cache>>
  /\ db_pc' = "person"
  /\ UNCHANGED <<dbStore, w_persons, w_account_type, w_transactions,
                 person_cache, account_type_cache, batch, idx, db_result,
                 runs, pre, last_batch, repeat, conn, inputs, aiVars, yrVars, procVars,
                 extVars>>

\* _get_or_create_person
GetOrCreatePerson ==
  /\ db_pc = "person"
  /\ LET person == batch[idx + 1].person
         person_lower == Lower(person)
     IN  IF person_lower \notin DOMAIN person_cache
         THEN /\ \A r \in w_persons : r.name # person
              /\ seq' = [ seq EXCEPT !.persons = @ + 1 ]
              /\ w_persons' = w_persons \cup
                   { [ id |-> seq.persons + 1, name |-> person ] }
              /\ person_cache' = Put(person_cache, person_lower, seq.persons + 1)
              /\ ids' = Append(ids, seq.persons + 1)
         ELSE /\ ids' = Append(ids, person_cache[person_lower])
              /\ UNCHANGED <<seq, w_persons, person_cache>>
  /\ db_pc' = "account_type"
  /\ UNCHANGED <<dbStore, w_categories, w_account_type, w_transactions,
                 category_cache, account_type_cache, batch, idx, db_result,
                 runs, pre, last_batch, repeat, conn, inputs, aiVars, yrVars, procVars,
                 extVars>>

\* _get_or_create_account_type
GetOrCreateAccountType ==
  /\ db_pc = "account_type"
  /\ LET account_type == batch[idx + 1].account_type
         account_type_lower == Lower(account_type)
     IN  IF account_type_lower \notin DOMAIN account_type_cache
         THEN /\ \A r \in w_account_type : r.name # account_type
              /\ seq' = [ seq EXCEPT !.account_type = @ + 1 ]
              /\ w_account_type' = w_account_type \cup
                   { [ id |-> seq.account_type + 1, name |-> account_type ] }
              /\ account_type_cache' =
                   Put(account_type_cache, account_type_lower,
                       seq.account_type + 1)
              /\ ids' = Append(ids, seq.account_type + 1)
         ELSE /\ ids' = Append(ids, account_type_cache[account_type_lower])
              /\ UNCHANGED <<seq, w_account_type, account_type_cache>>
  /\ db_pc' = "insert"
  /\ UNCHANGED <<dbStore, w_categories, w_persons, w_transactions,
                 category_cache, person_cache, batch, idx, db_result,
                 runs, pre, last_batch, repeat, conn, inputs, aiVars, yrVars, procVars,
                 extVars>>

\* the INSERT of the transaction, and on to the next one
InsertTransaction ==
  /\ db_pc = "insert"
  /\ LET transaction == batch[idx + 1]
         row == [ amount |-> transaction.amount,
                  merchant_name |-> transaction.merchant_name,
                  category_id |-> ids[1],
                  person_id |-> ids[2],
                  transaction_date |-> transaction.transaction_date,
                  account_type_id |-> ids[3] ]
     IN  w_transactions' = InsertOnConflictDoNothing(w_transactions, row)
  /\ idx' = idx + 1
  /\ ids' = <<>>
  /\ db_pc' = IF idx + 1 = Len(batch) THEN "commit" ELSE "category"
  /\ UNCHANGED <<dbStore, seq, w_categories, w_persons, w_account_type,
                 dbCache, batch, db_result, runs, pre, last_batch, repeat,
                 conn, inputs, aiVars, yrVars, procVars,
                 extVars>>

\* conn.commit(); return True (and conn.close() in the finally clause)
Commit ==
  /\ db_pc = "commit"
  /\ t_categories' = w_categories
  /\ t_persons' = w_persons
  /\ t_account_type' = w_account_type
  /\ t_transactions' = w_transactions
  /\ db_result' = "True"
  /\ last_batch' = { batch }
  /\ db_pc' = "returned"
  /\ conn' = "closed"
  /\ UNCHANGED <<seq, dbWork, dbCache, batch, idx, ids, runs, pre, repeat,
                 inputs, aiVars, yrVars, procVars,
                 extVars>>

\* a statement fails, and the connection's writes are committed all the same
StorageErrorCommits ==
  /\ db_pc \in { "load", "category", "person", "account_type", "insert",
                 "commit" }
  /\ t_categories' = w_categories
  /\ t_persons' = w_persons
  /\ t_account_type' = w_account_type
  /\ t_transactions' = w_transactions
  /\ db_result' = "Database insertion error"
  /\ db_pc' = "raised"
  /\ conn' = "closed"
  /\ UNCHANGED <<seq, dbWork, dbCache, batch, idx, ids, runs, pre,
                 last_batch, repeat, inputs, aiVars, yrVars, procVars,
                 extVars>>

\* A statement (a SELECT of _load_reference_data, a reference-row INSERT,
\* the transaction INSERT, the COMMIT) fails with a psycopg2.Error:
\* conn.rollback(), the wrapped exception is raised, conn.close().  The
\* sequences keep the values they handed out.
StorageError ==
  /\ db_pc \in { "load", "category", "person", "account_type", "insert",
                 "commit" }
  /\ w_categories' = t_categories
  /\ w_persons' = t_persons
  /\ w_account_type' = t_account_type
  /\ w_transactions' = t_transactions
  /\ db_result' = "Database insertion error"
  /\ db_pc' = "raised"
  /\ conn' = "closed"
  /\ UNCHANGED <<dbStore, seq, dbCache, batch, idx, ids, runs, pre,
                 last_batch, repeat, inputs, aiVars, yrVars, procVars,
                 extVars>>

\* the caller has the result; the processor and its caches stay
AddReturns ==
  /\ db_pc \in { "returned", "raised" }
  /\ db_pc' = "idle"
  /\ batch' = <<>>
  /\ idx' = 0
  /\ ids' = <<>>
  /\ db_result' = "none"
  /\ pre' = <<>>
  /\ repeat' = FALSE
  /\ conn' = "none"
  /\ UNCHANGED <<dbStore, seq, dbWork, dbCache, runs, last_batch,
                 inputs, aiVars, yrVars, procVars,
                 extVars>>

NextDB ==
  \/ Connect
  \/ LoadReferenceData
  \/ GetOrCreateCategory
  \/ GetOrCreatePerson
  \/ GetOrCreateAccountType
  \/ InsertTransaction
  \/ Commit
  \/ StorageError
  \/ AddReturns

SpecDB == InitDB /\ [][NextDB]_vars

\* C1: a call of add_to_database with the batch of the last committed call
\* leaves every table as it was: the second run adds no row.
C1_Idempotent ==
  db_pc = "returned" /\ repeat => dbStore = pre

\* a batch of several transactions has been committed a second time
C1_Witness ==
  /\ db_pc = "returned"
  /\ repeat
  /\ Len(batch) >= 2
  /\ BagCardinality(t_transactions) >= 2

\* C2: when add_to_database fails on a storage error, the committed tables
\* are those of before the call: no transaction and no reference row of the
\* batch is kept.
C2_BatchAtomic ==
  db_pc = "raised" => dbStore = pre

\* the call failed at a later transaction, after the batch had created a
\* person row and inserted a transaction
C2_Witness ==
  /\ db_pc = "raised"
  /\ idx >= 1
  /\ idx < Len(batch)
  /\ Lower(Hector) \in DOMAIN person_cache
  /\ t_persons = {}
  /\ t_transactions = EmptyBag

\* the tuple of the data model's deduplication invariant
DedupKey(row) ==
  << row.transaction_date, row.merchant_name, row.amount, row.person_id,
     row.account_type_id >>

\* C3: no two committed transaction rows share (transaction_date,
\* merchant_name, amount, person, account_type).
C3_NoDuplicateKey ==
  /\ \A r \in BagToSet(t_transactions) : CopiesIn(r, t_transactions) = 1
  /\ \A r1, r2 \in BagToSet(t_transactions) :
       DedupKey(r1) = DedupKey(r2) => r1 = r2

\* no two rows of a reference table have the same lowercased name
NamesUnique(table) ==
  \A r1, r2 \in table : Lower(r1.name) = Lower(r2.name) => r1 = r2

\* C20: from a store where no two rows of a reference table share a
\* lowercased name, a run of add_to_database never makes two such rows, in
\* the tables it commits or in the ones its open transaction sees: a name is
\* inserted only when the cache, loaded from the table and keyed by lowercased
\* name, has no entry for it, and the new id is cached at once.
C20_UniqueReferenceNames ==
  /\ NamesUnique(t_categories) /\ NamesUnique(w_categories)
  /\ NamesUnique(t_persons) /\ NamesUnique(w_persons)
  /\ NamesUnique(t_account_type) /\ NamesUnique(w_account_type)

\* C20: a batch naming the same category in two cases has been committed,
\* with one row for the category, one person and one account type
C20_Witness ==
  /\ db_pc = "returned"
  /\ db_result = "True"
  /\ \E i, j \in DOMAIN batch :
       batch[i].category = Shopping /\ batch[j].category = Lower(Shopping)
  /\ Cardinality({ r \in t_categories :
                     Lower(r.name) = Lower(Shopping) }) = 1
  /\ Cardinality(t_persons) = 1
  /\ Cardinality(t_account_type) = 1

-----------------------------------------------------------------------------
(* main.py, AddTransactions.process_transactions and the issuers' read_files *)

\* the order in which main processes the sources
Sources == << "apple", "chase", "amex" >>

\* the source after s in main, or "done"
NextSource(s) ==
  IF s = "apple" THEN "chase" ELSE IF s = "chase" THEN "amex" ELSE "done"

\* list.remove(x): the first occurrence goes; ValueError when there is none
RemoveFirst(list, x) ==
  LET i == CHOOSE j \in DOMAIN list :
             list[j] = x /\ \A k \in 1..(j - 1) : list[k] # x
  IN  SubSeq(list, 1, i - 1) \o SubSeq(list, i + 1, Len(list))

InitProc ==
  /\ \E n \in [ Range(Sources) -> 0..MaxFiles ] :
       /\ files = [ s \in Range(Sources) |-> [ i \in 1..n[s] |-> <<s, i>> ] ]
       /\ disk = { f \in Range(Sources) \X (1..MaxFiles) : f[2] <= n[f[1]] }
       /\ readable \in SUBSET disk
  /\ main_pc = "apple"
  /\ main_error = FALSE
  /\ called = {}
  /\ p_pc = "idle"
  /\ processed_files = <<>>
  /\ it = 0
  /\ dataframes = <<>>
  /\ add_result = "none"
  /\ deleted = {}
  /\ p_store = {}
  /\ IdleAI
  /\ IdleYear
  /\ IdleDB
  /\ IdleExt

\* main: `if <source>_files:` holds; process_transactions is entered and
\* binds self.processed_files to the list it was given
CallProcess ==
  /\ main_pc # "done" /\ p_pc = "idle"
  /\ files[main_pc] # <<>>
  /\ called' = called \cup { main_pc }
  /\ processed_files' = files[main_pc]
  /\ it' = 0
  /\ dataframes' = <<>>
  /\ add_result' = "none"
  /\ deleted' = {}
  /\ p_pc' = "read"
  /\ UNCHANGED <<files, readable, disk, main_pc, main_error, p_store,
                 aiVars, yrVars, dbVars,
                 extVars>>

\* main: "No ... transaction files found"
SkipSource ==
  /\ main_pc # "done" /\ p_pc = "idle"
  /\ files[main_pc] = <<>>
  /\ main_pc' = NextSource(main_pc)
  /\ UNCHANGED <<files, readable, disk, main_error, called, p_pc,
                 processed_files, it, dataframes, add_result, deleted,
                 p_store, aiVars, yrVars, dbVars,
                 extVars>>

\* read_files: one turn of `for file_path in file_paths`.  The list iterator
\* yields the item at its index in the list as it is now.
ReadFile ==
  /\ p_pc = "read"
  /\ it < Len(processed_files)
  /\ LET file_path == processed_files[it + 1]
     IN  IF file_path \in readable
         THEN /\ dataframes' = Append(dataframes, file_path)
              /\ UNCHANGED processed_files
         ELSE /\ processed_files' = RemoveFirst(processed_files, file_path)
              /\ UNCHANGED dataframes
  /\ it' = it + 1
  /\ UNCHANGED <<files, readable, disk, main_pc, main_error, called, p_pc,
                 add_result, deleted, p_store, aiVars, yrVars, dbVars,
                 extVars>>

\* read_files: the iterator is exhausted; ValueError("No valid files were
\* read") without a frame, else the frames are concatenated
ReadDone ==
  /\ p_pc = "read"
  /\ it >= Len(processed_files)
  /\ p_pc' = IF dataframes = <<>> THEN "raised" ELSE "clean"
  /\ UNCHANGED <<files, readable, disk, main_pc, main_error, called,
                 processed_files, it, dataframes, add_result, deleted,
                 p_store, aiVars, yrVars, dbVars,
                 extVars>>

\* clean_data returns
CleanData ==
  /\ p_pc = "clean"
  /\ p_pc' = "prepare"
  /\ UNCHANGED <<files, readable, disk, main_pc, main_error, called,
                 processed_files, it, dataframes, add_result, deleted,
                 p_store, aiVars, yrVars, dbVars,
                 extVars>>

\* prepare_data_for_db returns
PrepareData ==
  /\ p_pc = "prepare"
  /\ p_pc' = "add"
  /\ UNCHANGED <<files, readable, disk, main_pc, main_error, called,
                 processed_files, it, dataframes, add_result, deleted,
                 p_store, aiVars, yrVars, dbVars,
                 extVars>>

\* clean_data or prepare_data_for_db raises (a missing column, a date or
\* an amount that does not parse)
StageRaises ==
  /\ p_pc \in { "clean", "prepare" }
  /\ p_pc' = "raised"
  /\ UNCHANGED <<files, readable, disk, main_pc, main_error, called,
                 processed_files, it, dataframes, add_result, deleted,
                 p_store, aiVars, yrVars, dbVars,
                 extVars>>

\* add_to_database commits the batch and returns True
AddCommits ==
  /\ p_pc = "add"
  /\ p_store' = p_store \cup Range(dataframes)
  /\ add_result' = "True"
  /\ p_pc' = "delete"
  /\ UNCHANGED <<files, readable, disk, main_pc, main_error, called,
                 processed_files, it, dataframes, deleted, aiVars, yrVars, dbVars,
                 extVars>>

\* add_to_database raises, and the files are deleted all the same
AddRaisesAndDeletes ==
  /\ p_pc = "add"
  /\ add_result' = "raised"
  /\ p_pc' = "delete"
  /\ UNCHANGED <<files, readable, disk, main_pc, main_error, called,
                 processed_files, it, dataframes, deleted, p_store,
                 aiVars, yrVars, dbVars,
                 extVars>>

\* add_to_database raises: the store is as before (the batch is rolled
\* back) and process_transactions re-raises
AddRaises ==
  /\ p_pc = "add"
  /\ add_result' = "raised"
  /\ p_pc' = "raised"
  /\ UNCHANGED <<files, readable, disk, main_pc, main_error, called,
                 processed_files, it, dataframes, deleted, p_store,
                 aiVars, yrVars, dbVars,
                 extVars>>

\* delete_processed_files: os.remove on every entry of self.processed_files
\* (an OSError, for a file that is not there, is printed and passed over)
DeleteProcessedFiles ==
  /\ p_pc = "delete"
  /\ disk' = disk \ Range(processed_files)
  /\ deleted' = disk \cap Range(processed_files)
  /\ p_pc' = "returned"
  /\ UNCHANGED <<files, readable, main_pc, main_error, called,
                 processed_files, it, dataframes, add_result, p_store,
                 aiVars, yrVars, dbVars,
                 extVars>>

\* main: process_transactions returned; on to the next source
ProcessReturns ==
  /\ p_pc = "returned"
  /\ main_pc' = NextSource(main_pc)
  /\ p_pc' = "idle"
  /\ UNCHANGED <<files, readable, disk, main_error, called,
                 processed_files, it, dataframes, add_result, deleted,
                 p_store, aiVars, yrVars, dbVars,
                 extVars>>

\* main: process_transactions raised; the one except clause around all three
\* sources prints the error and main ends
MainExcept ==
  /\ p_pc = "raised"
  /\ main_error' = TRUE
  /\ main_pc' = "done"
  /\ p_pc' = "idle"
  /\ UNCHANGED <<files, readable, disk, called, processed_files, it,
                 dataframes, add_result, deleted, p_store, aiVars, yrVars, dbVars,
                 extVars>>

NextProc ==
  \/ CallProcess
  \/ SkipSource
  \/ ReadFile
  \/ ReadDone
  \/ CleanData
  \/ PrepareData
  \/ StageRaises
  \/ AddCommits
  \/ AddRaises
  \/ DeleteProcessedFiles
  \/ ProcessReturns
  \/ MainExcept

SpecProc == InitProc /\ [][NextProc]_vars

\* C4: a file is deleted only after add_to_database has committed and
\* returned True in the same run; a run in which a stage raises deletes
\* nothing.
C4_DeleteOnlyAfterCommit ==
  /\ deleted # {} => add_result = "True" /\ Range(dataframes) \subseteq p_store
  /\ p_pc = "raised" => deleted = {} /\ Range(files[main_pc]) \subseteq disk

\* a run that has committed and then deleted files
C4_Witness ==
  /\ p_pc = "returned"
  /\ add_result = "True"
  /\ deleted # {}
  /\ deleted \cap disk = {}

\* C5: after a successful process_transactions the files deleted are
\* exactly the files read_files read.
C5_DeletedEqualRead ==
  p_pc = "returned" => deleted = Range(dataframes)

\* read_files has gone through its list
ReadFinished ==
  /\ main_pc # "done"
  /\ p_pc \in { "clean", "prepare", "add", "delete", "returned", "raised" }

\* C6: with one unreadable file in the list, every readable file of the
\* list has been read, wherever the unreadable one stands.
C6_ReadableFilesRead ==
  ReadFinished /\ Cardinality(Range(files[main_pc]) \ readable) = 1
    => Range(files[main_pc]) \cap readable \subseteq Range(dataframes)

\* C7: when a source fails, main has still processed every other source
\* that has files.
C7_SourceIsolation ==
  main_pc = "done" /\ main_error
    => \A s \in Range(Sources) : files[s] # <<>> => s \in called

-----------------------------------------------------------------------------
(* chase_statement_reader.py: extract_statement_year *)

Digits == { "0", "1", "2", "3", "4", "5", "6", "7", "8", "9" }

DigitValue ==
  [ d \in Digits |->
      CASE d = "0" -> 0 [] d = "1" -> 1 [] d = "2" -> 2 [] d = "3" -> 3
        [] d = "4" -> 4 [] d = "5" -> 5 [] d = "6" -> 6 [] d = "7" -> 7
        [] d = "8" -> 8 [] d = "9" -> 9 ]

\* int(s) for a string of decimal digits
RECURSIVE ToInt(_)
ToInt(s) ==
  IF s = <<>> THEN 0
  ELSE 10 * ToInt(SubSeq(s, 1, Len(s) - 1)) + DigitValue[s[Len(s)]]

\* text[i .. i+n-1] exists and is all digits: \d{n} at position i
DigitsAt(text, i, n) ==
  /\ i + n - 1 <= Len(text)
  /\ \A k \in i..(i + n - 1) : text[k] \in Digits

CharAt(text, i, c) == i <= Len(text) /\ text[i] = c

\* the position after the longest run of whitespace starting at i: \s*
\* (what follows \s* in the pattern is never whitespace, so the greedy
\* choice is the only one that can match)
SkipSpace(text, i) ==
  IF i > Len(text) THEN i
  ELSE LET stop == { j \in i..(Len(text) + 1) :
                       j = Len(text) + 1 \/ text[j] \notin Whitespace }
       IN  CHOOSE j \in stop : \A k \in stop : j <= k

\* The places where the matcher has a choice, in the order it tries them:
\* \d{1,2} is greedy (2 digits, then 1); (\d{2}|\d{4}) tries \d{2} first.
\* A choice is << month1, day1, year1, month2, day2, year2 >> lengths.
RegexChoices ==
  { <<m1, d1, y1, m2, d2, y2>> :
      m1 \in {2, 1}, d1 \in {2, 1}, y1 \in {2, 4},
      m2 \in {2, 1}, d2 \in {2, 1}, y2 \in {2, 4} }

\* how late the matcher comes to a choice: 0 is tried first
ChoiceRank(ch) ==
  LET late(n, first) == IF n = first THEN 0 ELSE 1
  IN  32 * late(ch[1], 2) + 16 * late(ch[2], 2) + 8 * late(ch[3], 2)
      + 4 * late(ch[4], 2) + 2 * late(ch[5], 2) + late(ch[6], 2)

\* the positions of the pattern's pieces when it is matched at `start`
\* along choice ch
MatchPlan(text, start, ch) ==
  LET s1 == start + ch[1]                 \* "/" after the first month
      s2 == s1 + 1 + ch[2]                \* "/" after the first day
      e1 == s2 + 1 + ch[3]                \* after the first year
      dash == SkipSpace(text, e1)         \* "-"
      b2 == SkipSpace(text, dash + 1)     \* the second date
      t1 == b2 + ch[4]
      t2 == t1 + 1 + ch[5]
  IN  [ s1 |-> s1, s2 |-> s2, e1 |-> e1, dash |-> dash, b2 |-> b2,
        t1 |-> t1, t2 |-> t2, y2 |-> t2 + 1 ]

MatchesAt(text, start, ch) ==
  LET p == MatchPlan(text, start, ch)
  IN  /\ DigitsAt(text, start, ch[1])
      /\ CharAt(text, p.s1, "/")
      /\ DigitsAt(text, p.s1 + 1, ch[2])
      /\ CharAt(text, p.s2, "/")
      /\ DigitsAt(text, p.s2 + 1, ch[3])
      /\ CharAt(text, p.dash, "-")
      /\ DigitsAt(text, p.b2, ch[4])
      /\ CharAt(text, p.t1, "/")
      /\ DigitsAt(text, p.t1 + 1, ch[5])
      /\ CharAt(text, p.t2, "/")
      /\ DigitsAt(text, p.y2, ch[6])

\* re.search(closing_date_pattern, text).group(4), or None without a match:
\* the leftmost start that matches, and there the first choice that does
ClosingYearGroup(text) ==
  LET starts == { i \in 1..Len(text) :
                    \E ch \in RegexChoices : MatchesAt(text, i, ch) }
  IN  IF starts = {} THEN None
      ELSE LET start == CHOOSE i \in starts : \A j \in starts : i <= j
               good == { ch \in RegexChoices : MatchesAt(text, start, ch) }
               ch == CHOOSE c \in good :
                       \A d \in good : ChoiceRank(c) <= ChoiceRank(d)
               y2 == MatchPlan(text, start, ch).y2
           IN  SubSeq(text, y2, y2 + ch[6] - 1)

\* extract_statement_year; text = None: the page has no text layer
\* (extract_text() returns None, re.search raises, the except prints)
extract_statement_year(text, now_year) ==
  IF text = None THEN now_year
  ELSE LET year_str == ClosingYearGroup(text)
       IN  IF year_str = None THEN now_year
           ELSE IF Len(year_str) = 2 THEN 2000 + ToInt(year_str)
           ELSE ToInt(year_str)

\* Page-1 texts: before ++ opening date ++ dash ++ closing month/day ++
\* closing year ++ after
TextBefore == { <<>>, <<"D","a","t","e"," ">>, <<"1"," ">> }
OpeningDates ==
  { <<"1","1","/","1","6","/","2","5">>,
    <<"1","1","/","1","6","/","2","0","2","5">>,
    <<"1","/","6","/","2","5">> }
Dashes == { <<"-">>, <<" ","-"," ">>, <<"\n","-"," "," ">> }
ClosingDays == { <<"1","2","/","1","5","/">>, <<"2","/","5","/">> }
ClosingYears ==
  { <<"2","5">>, <<"0","7">>, <<"2","0","2","5">>, <<"2","0","2","6">>,
    <<"1","9","9","9">> }
TextAfter == { <<>>, <<"\n">>, <<" ","d","u","e">> }

\* page-1 texts without a date range
PlainTexts ==
  { <<>>, <<"c","h","a","s","e">>, <<"1","2","/","1","5","/","2","5">>,
    <<"1","1","/","1","6","-","1","2","/","1","5">> }

NowYears == { 2025, 2026 }

InitYear ==
  /\ IdleYear
  /\ IdleAI
  /\ IdleProc
  /\ IdleDB
  /\ IdleExt

\* pdfplumber.open: page 1 carries a date range
OpenWithRange ==
  /\ yr_pc = "closed"
  /\ \E b \in TextBefore, o \in OpeningDates, d \in Dashes, c \in ClosingDays,
        y \in ClosingYears, a \in TextAfter, now \in NowYears :
       /\ yr_in' = [ text |-> b \o o \o d \o c \o y \o a, closing_year |-> y ]
       /\ yr_now' = now
  /\ yr_pc' = "open"
  /\ UNCHANGED <<yr_out, aiVars, procVars, dbVars,
                 extVars>>

\* pdfplumber.open: page 1 carries no date range, or no text at all
OpenWithoutRange ==
  /\ yr_pc = "closed"
  /\ \E t \in PlainTexts \cup { None }, now \in NowYears :
       /\ yr_in' = [ text |-> t, closing_year |-> None ]
       /\ yr_now' = now
  /\ yr_pc' = "open"
  /\ UNCHANGED <<yr_out, aiVars, procVars, dbVars,
                 extVars>>

ExtractStatementYear ==
  /\ yr_pc = "open"
  /\ yr_out' = extract_statement_year(yr_in.text, yr_now)
  /\ yr_pc' = "done"
  /\ UNCHANGED <<yr_in, yr_now, aiVars, procVars, dbVars,
                 extVars>>

ClosePdf ==
  /\ yr_pc = "done"
  /\ yr_pc' = "closed"
  /\ yr_in' = <<>>
  /\ yr_now' = 2026
  /\ yr_out' = 0
  /\ UNCHANGED <<aiVars, procVars, dbVars,
                 extVars>>

NextYear ==
  \/ OpenWithRange
  \/ OpenWithoutRange
  \/ ExtractStatementYear
  \/ ClosePdf

SpecYear == InitYear /\ [][NextYear]_vars

\* C10: with a date range on page 1 the statement year is the closing
\* date's year: the 4-digit year itself, or 2000 + YY for a 2-digit year.
C10_ClosingYear ==
  yr_pc = "done" /\ yr_in.closing_year # None
    => yr_out = IF Len(yr_in.closing_year) = 4
                THEN ToInt(yr_in.closing_year)
                ELSE 2000 + ToInt(yr_in.closing_year)

-----------------------------------------------------------------------------
(* Category resolution: inputs and actions *)

Merchants ==
  { <<"A","M","A","Z","O","N"," ","R","E","F","U","N","D">>,
    <<"R","E","F","U","N","D"," ","P","A","Y","M","E","N","T">>,
    <<"Z","e","d">> }

CategoryNames == { Shopping, Lower(Shopping) }

\* a value of the category column in a source file
CategoryValues == { Other, Shopping, NaN }

Responses ==
  { LlmRaises,
    LlmSays(<<" ","s","h","o","p","p","i","n","g","\n">>),
    LlmSays(<<"S","h","o","p","p","i","n","g"," ","i","s"," ","m","y"," ",
              "g","u","e","s","s">>) }

AllResponses ==
  Responses \cup { LlmSays(Shopping), LlmSays(Other), LlmSays(<<>>) }

\* a data frame with a category column, and one without
Frames ==
  { [ has_category |-> TRUE, rows |-> r ] :
      r \in SeqsUpTo([ merchant_name : Merchants, category : CategoryValues ],
                     MaxRows) \ { <<>> } }
  \cup
  { [ has_category |-> FALSE, rows |-> r ] :
      r \in SeqsUpTo([ merchant_name : Merchants ], MaxRows) \ { <<>> } }

InitAI ==
  /\ IdleAI
  /\ IdleYear
  /\ IdleProc
  /\ IdleDB
  /\ IdleExt

GuessCategory ==
  /\ ai_pc = "idle"
  /\ \E llm \in BOOLEAN, response \in AllResponses, merchant_name \in Merchants,
        categories \in SeqsUpTo(CategoryNames, MaxCats) :
       /\ ai_pc' = "guess_category_openai"
       /\ ai_in' = [ llm |-> llm, response |-> response,
                     merchant_name |-> merchant_name,
                     categories |-> categories ]
       /\ ai_out' = guess_category_openai(llm, response, merchant_name,
                                          categories)
  /\ UNCHANGED <<yrVars, procVars, dbVars,
                 extVars>>

AddCategory ==
  /\ ai_pc = "idle"
  /\ \E llm \in BOOLEAN, df \in Frames,
        cache_keys \in SeqsUpTo(CategoryNames, MaxCats) :
       \E responses \in [ DOMAIN df.rows -> Responses ] :
         /\ ai_pc' = "add_category"
         /\ ai_in' = [ llm |-> llm, responses |-> responses, df |-> df,
                       cache_keys |-> cache_keys ]
         /\ ai_out' = add_category(llm, responses, df, cache_keys)
  /\ UNCHANGED <<yrVars, procVars, dbVars,
                 extVars>>

\* update_categories.main returns at once when the helper has no llm
UpdateCategory ==
  /\ ai_pc = "idle"
  /\ \E response \in Responses, merchant_name \in Merchants,
        category_names \in SeqsUpTo(CategoryNames, MaxCats) :
       /\ ai_pc' = "update_category"
       /\ ai_in' = [ llm |-> TRUE, response |-> response,
                     merchant_name |-> merchant_name,
                     category_names |-> category_names ]
       /\ ai_out' = update_category(TRUE, response, merchant_name,
                                    category_names)
  /\ UNCHANGED <<yrVars, procVars, dbVars,
                 extVars>>

\* the caller takes the result; the next call starts from scratch
AiReturn ==
  /\ ai_pc # "idle"
  /\ ai_pc' = "idle"
  /\ ai_in' = <<>>
  /\ ai_out' = <<>>
  /\ UNCHANGED <<yrVars, procVars, dbVars,
                 extVars>>

NextGuess ==
  \/ GuessCategory
  \/ AiReturn

NextCat ==
  \/ UpdateCategory
  \/ AddCategory
  \/ AiReturn

\* the classifier alone
SpecGuess == InitAI /\ [][NextGuess]_vars

\* the two categorization paths
SpecCat == InitAI /\ [][NextCat]_vars

\* C8: whatever the model does (an answer outside the list, explanatory
\* text, an exception), guess_category_openai returns an element of the
\* allowed list or "Other".
C8_ClassifierSandboxed ==
  ai_pc = "guess_category_openai"
    => ai_out \in Range(ai_in.categories) \cup { Other }

\* the model is available, the list is not empty, and the answer is not an
\* element of it
C8_Witness ==
  /\ ai_pc = "guess_category_openai"
  /\ ai_in.llm
  /\ ai_in.categories # <<>>
  /\ ai_in.response.kind = "content"
  /\ Strip(ai_in.response.content) # <<>>
  /\ Strip(ai_in.response.content) \notin Range(ai_in.categories)
  /\ ai_out = Other

HasRefundKeyword(merchant_name) ==
  \/ Contains(<<"r","e","f","u","n","d">>, Lower(merchant_name))
  \/ Contains(<<"r","e","t","u","r","n">>, Lower(merchant_name))

\* some pattern of the vendor table with another category than
\* "Refunds & Returns" occurs in the merchant name
MatchesOtherVendor(merchant_name) ==
  \E j \in DOMAIN VENDOR_CATEGORY_MAP :
    /\ Contains(Lower(VENDOR_CATEGORY_MAP[j][1]), Lower(merchant_name))
    /\ VENDOR_CATEGORY_MAP[j][2] # RefundsAndReturns

\* C9: a merchant name with a refund keyword that also matches a vendor
\* pattern of another category resolves to "Refunds & Returns" on both
\* categorization paths.
C9_CascadePrecedence ==
  /\ ai_pc = "update_category" /\ ai_out.updated
       => ( HasRefundKeyword(ai_in.merchant_name)
            /\ MatchesOtherVendor(ai_in.merchant_name)
              => ai_out.category_name = RefundsAndReturns )
  /\ ai_pc = "add_category"
       => \A i \in DOMAIN ai_out :
            HasRefundKeyword(ai_out[i].merchant_name)
            /\ MatchesOtherVendor(ai_out[i].merchant_name)
              => ai_out[i].category = RefundsAndReturns

(***************************************************************************)
(* The Chase statement parser: ChaseStatementReader.extract_transactions   *)
(* and PDFStatementReader._standardize_date.                               *)
(***************************************************************************)

\* bound: the lines of the page
MaxLines == 2

Chase == <<"C","h","a","s","e">>
AccountActivity == <<"A","C","C","O","U","N","T"," ","A","C","T","I","V","I","T","Y">>
DateOf == <<"D","a","t","e"," ","o","f">>
NaT == << "NaT" >>

\* str.split(sep) for a separator of one character
RECURSIVE SplitOn(_, _)
SplitOn(s, sep) ==
  IF \A i \in DOMAIN s : s[i] # sep THEN << s >>
  ELSE LET i == CHOOSE k \in DOMAIN s :
                  s[k] = sep /\ \A j \in 1..(k - 1) : s[j] # sep
       IN  << SubSeq(s, 1, i - 1) >> \o SplitOn(SubSeq(s, i + 1, Len(s)), sep)

\* str.split(): the maximal runs of characters that are not whitespace
RECURSIVE Split(_)
Split(s) ==
  LET t == Strip(s)
      ws == { i \in DOMAIN t : t[i] \in Whitespace }
  IN  IF t = <<>> THEN <<>>
      ELSE IF ws = {} THEN << t >>
      ELSE LET i == CHOOSE k \in ws : \A j \in ws : k <= j
           IN  << SubSeq(t, 1, i - 1) >> \o Split(SubSeq(t, i + 1, Len(t)))

\* sep.join(parts)
RECURSIVE Join(_, _)
Join(parts, sep) ==
  IF parts = <<>> THEN <<>>
  ELSE IF Len(parts) = 1 THEN parts[1]
  ELSE parts[1] \o sep \o Join(Tail(parts), sep)

\* s.replace(c, '')
Remove(s, c) == SelectSeq(s, LAMBDA x : x # c)

DigitChar == [ v \in 0..9 |-> CHOOSE d \in Digits : DigitValue[d] = v ]

\* str(n) for n >= 0
RECURSIVE Str(_)
Str(n) ==
  IF n < 10 THEN << DigitChar[n] >>
  ELSE Str(n \div 10) \o << DigitChar[n % 10] >>

\* n written with at least w digits (strftime's %Y, %m, %d)
RECURSIVE Padded(_, _)
Padded(n, w) ==
  IF Len(Str(n)) >= w THEN Str(n) ELSE << "0" >> \o Padded(n, w - 1)

IsLeap(y) == (y % 4 = 0 /\ y % 100 # 0) \/ y % 400 = 0

DaysInMonth(y, m) ==
  IF m = 2 THEN (IF IsLeap(y) THEN 29 ELSE 28)
  ELSE IF m \in { 4, 6, 9, 11 } THEN 30 ELSE 31

\* the formats _standardize_date tries, in order: the separator and the
\* directives
DateFormats ==
  << [ sep |-> "/", fields |-> << "m", "d", "Y" >> ],
     [ sep |-> "/", fields |-> << "m", "d", "y" >> ],
     [ sep |-> "-", fields |-> << "Y", "m", "d" >> ],
     [ sep |-> "-", fields |-> << "d", "m", "Y" >> ],
     [ sep |-> "/", fields |-> << "d", "m", "Y" >> ] >>

\* datetime.strptime(date_string, fmt) as << year, month, day >>, None for
\* ValueError.  %m and %d take one or two digits, %Y four, %y two (00..68
\* is 20xx); the whole string must be used, and the day must exist.
Strptime(date_string, fmt) ==
  LET f == SplitOn(date_string, fmt.sep)
      Field(c) == f[CHOOSE k \in 1..3 : fmt.fields[k] = c]
      Width(c) == Len(Field(c))
  IN  IF Len(f) # 3 \/ \E k \in 1..3 : f[k] = <<>> \/ ~DigitsAt(f[k], 1, Len(f[k]))
      THEN None
      ELSE LET long == "Y" \in Range(fmt.fields)
               yy == IF long THEN Field("Y") ELSE Field("y")
               year == IF long THEN ToInt(yy)
                       ELSE IF ToInt(yy) <= 68 THEN 2000 + ToInt(yy)
                       ELSE 1900 + ToInt(yy)
               month == ToInt(Field("m"))
               day == ToInt(Field("d"))
           IN  IF /\ Len(yy) = (IF long THEN 4 ELSE 2)
                  /\ year >= 1
                  /\ Width("m") <= 2 /\ month \in 1..12
                  /\ Width("d") <= 2 /\ day >= 1
                  /\ day <= DaysInMonth(year, month)
               THEN << year, month, day >>
               ELSE None

\* datetime.strftime('%Y-%m-%d')
Strftime(date) ==
  Padded(date[1], 4) \o << "-" >> \o Padded(date[2], 2) \o << "-" >>
    \o Padded(date[3], 2)

\* _standardize_date: the first format that parses, or None
standardize_date(date_str) ==
  IF date_str \in { None, NaN } \/ Lower(date_str) = << "n", "a", "n" >>
  THEN None
  ELSE LET hits == { k \in DOMAIN DateFormats :
                       Strptime(Strip(date_str), DateFormats[k]) # None }
       IN  IF hits = {} THEN None
           ELSE Strftime(Strptime(Strip(date_str),
                  DateFormats[CHOOSE k \in hits : \A j \in hits : k <= j]))

\* re.match(r'^\d{2}/\d{2}', s): the pattern is not anchored at its end
MatchesDatePrefix(s) ==
  DigitsAt(s, 1, 2) /\ CharAt(s, 3, "/") /\ DigitsAt(s, 4, 2)

\* any string of digits, a dot and digits
MatchesAmountLoose(amount) ==
  LET body == IF amount # <<>> /\ amount[1] = "-" THEN Tail(amount)
              ELSE amount
      dots == { i \in DOMAIN body : body[i] = "." }
  IN  /\ Cardinality(dots) = 1
      /\ \A i \in DOMAIN body \ dots : body[i] \in Digits
      /\ \A i \in dots : 1 < i /\ i < Len(body)

\* re.match(r'^-?\d+\.\d{2}$', amount)
MatchesAmount(amount) ==
  LET body == IF amount # <<>> /\ amount[1] = "-" THEN Tail(amount)
              ELSE amount
      n == Len(body)
  IN  /\ n >= 4
      /\ DigitsAt(body, 1, n - 3)
      /\ body[n - 2] = "."
      /\ DigitsAt(body, n - 1, 2)

\* float(amount) for an amount that matched, in cents
Float(amount) ==
  LET neg == amount[1] = "-"
      body == IF neg THEN Tail(amount) ELSE amount
      dot == CHOOSE i \in DOMAIN body : body[i] = "."
      frac == SubSeq(body, dot + 1, Len(body))
      cents == 100 * ToInt(SubSeq(body, 1, dot - 1))
                 + (IF Len(frac) = 1 THEN 10 * ToInt(frac)
                    ELSE ToInt(SubSeq(frac, 1, 2)))
  IN  IF neg THEN 0 - cents ELSE cents

\* The body of the loop over the lines, lines 61-92: the records one line
\* appends to `transactions`, none or one.
LineRecords(line, year) ==
  LET stripped == Strip(line)
  IN  IF stripped = <<>> \/ Contains(AccountActivity, line)
           \/ Contains(DateOf, line)
      THEN <<>>
      ELSE IF ~MatchesDatePrefix(stripped) THEN <<>>
      ELSE LET parts == Split(stripped)
           IN  IF Len(parts) < 3 THEN <<>>
               ELSE LET date == parts[1]
                        amount == Remove(Remove(parts[Len(parts)], "$"), ",")
                        description ==
                          Join(SubSeq(parts, 2, Len(parts) - 1), << " " >>)
                    IN  IF ~MatchesAmount(amount) THEN <<>>
                        ELSE << [ date |-> standardize_date(
                                    date \o << "/" >> \o Str(year)),
                                  description |-> description,
                                  amount |-> Float(amount),
                                  bank |-> Chase ] >>

\* pd.to_datetime of the date column: None becomes NaT
ToDatetime(date) ==
  IF date = None THEN NaT
  ELSE Strptime(date, [ sep |-> "-", fields |-> << "Y", "m", "d" >> ])

\* the order sort_values('date') sorts by: NaT comes last
DateKey(date) ==
  IF date = NaT THEN 100000000
  ELSE 10000 * date[1] + 100 * date[2] + date[3]

\* The frames lines 94-99 can return: the records sorted by date, and the
\* dates formatted again (NaT comes out as NaN).  sort_values uses
\* quicksort, which does not fix the order of records of one date; the
\* records without a date are put last, in the order they had.
SortedFrames(records) ==
  LET n == Len(records)
      stamp == [ i \in 1..n |-> ToDatetime(records[i].date) ]
      orders == { f \in [ 1..n -> 1..n ] :
                    /\ \A i, j \in 1..n : i # j => f[i] # f[j]
                    /\ \A i, j \in 1..n :
                         i < j =>
                           /\ DateKey(stamp[f[i]]) <= DateKey(stamp[f[j]])
                           /\ stamp[f[i]] = NaT /\ stamp[f[j]] = NaT
                                => f[i] < f[j] }
  IN  { [ i \in 1..n |->
            [ records[f[i]] EXCEPT
                !.date = IF stamp[f[i]] = NaT THEN NaN
                         ELSE Strftime(stamp[f[i]]) ] ] : f \in orders }

\* lines a statement page is made of
StatementLines ==
  { <<"1","2","/","1","5"," ","S","T","A","R","B","U","C","K","S"," ","C","O","F","F","E","E"," ","4",".","7","5">>,
    <<"T","O","T","A","L"," ","D","U","E"," ","5","0","0",".","0","0">>,
    <<"1","2","/","1","5","/","2","4"," ","S","T","O","R","E"," ","4",".","7","5">>,
    <<"1","2","/","1","5"," ","S","T","O","R","E">>,
    <<"1","2","/","1","5"," ","S","T","O","R","E"," ","4",".","7">>,
    <<"1","2","/","1","6"," ","S","T","O","R","E"," ","-","$","1",",","2","0","4",".","5","0">>,
    <<"1","2","/","1","5"," ","A","C","C","O","U","N","T"," ","A","C","T","I","V","I","T","Y"," ","4",".","7","5">>,
    <<"0","2","/","2","9"," ","G","Y","M"," ","3","0",".","0","0">>,
    <<" ","1","2","/","1","7"," ","A","B"," "," ","C","D"," ","5",".","0","0"," ">>,
    <<"1","3","/","0","1"," ","X"," ","4",".","7","5">>,
    <<"1","2","/","1","5"," ","S","T","O","R","E"," ","4",".","7","5">> }

\* the first page: no text, or the statement period
FirstPages ==
  { <<>>,
    <<"1","1","/","1","6","/","2","4"," ","-"," ","1","2","/","1","5","/","2","4">> }

\* the second page: at most MaxLines lines joined by newlines
PageTexts ==
  { Join(ls, << "\n" >>) : ls \in SeqsUpTo(StatementLines, MaxLines) }

\* the years the statement can be read in: a leap year and the next
PdfNowYears == { 2024, 2025 }

InitPdf ==
  /\ pdf_pc = "closed"
  /\ pdf_pages \in { << first, second >> :
                      first \in FirstPages \cup { None },
                      second \in PageTexts \cup { None } }
  /\ pdf_now \in PdfNowYears
  /\ statement_year = 0
  /\ pdf_lines = <<>>
  /\ line_no = 0
  /\ pdf_transactions = <<>>
  /\ pdf_from = <<>>
  /\ pdf_df = <<>>
  /\ IdleAI
  /\ IdleYear
  /\ IdleProc
  /\ IdleDB
  /\ IdleClean
  /\ IdleGc
  /\ IdleRace
  /\ IdleInst
  /\ IdleVend

\* the lines of the pages from page p on that the loops of lines 56-60
\* reach: page.extract_text() is None for a page without text (releases of
\* pdfplumber differ: the later ones give ''), and text.split of line 60
\* then raises AttributeError outside the try of line 61
LinesFrom(p) ==
  IF p > Len(pdf_pages) \/ pdf_pages[p] = None THEN <<>>
  ELSE SplitOn(pdf_pages[p], "\n") \o
       (IF p + 1 > Len(pdf_pages) \/ pdf_pages[p + 1] = None THEN <<>>
        ELSE SplitOn(pdf_pages[p + 1], "\n"))

\* a page of the statement has no text
SomePageIsNone == \E p \in DOMAIN pdf_pages : pdf_pages[p] = None

\* pdfplumber.open, extract_statement_year on the first page (re.search on
\* None raises TypeError, and lines 41-45 fall back to the current year),
\* and the lines the two loops go through
OpenStatement ==
  /\ pdf_pc = "closed"
  /\ statement_year' = IF pdf_pages[1] = None THEN pdf_now
                       ELSE extract_statement_year(pdf_pages[1], pdf_now)
  /\ pdf_lines' = LinesFrom(1)
  /\ pdf_pc' = "lines"
  /\ UNCHANGED <<pdf_pages, pdf_now, line_no, pdf_transactions, pdf_from,
                 pdf_df, pdfRest>>

\* one turn of the for loop over the lines
ProcessLine ==
  /\ pdf_pc = "lines"
  /\ line_no < Len(pdf_lines)
  /\ LET new == LineRecords(pdf_lines[line_no + 1], statement_year)
     IN  /\ pdf_transactions' = pdf_transactions \o new
         /\ pdf_from' = pdf_from \o [ i \in 1..Len(new) |-> line_no + 1 ]
  /\ line_no' = line_no + 1
  /\ UNCHANGED <<pdf_pc, pdf_pages, pdf_now, statement_year, pdf_lines,
                 pdf_df, pdfRest>>

\* the loops are over: the DataFrame is built, sorted and returned
BuildFrame ==
  /\ pdf_pc = "lines"
  /\ line_no = Len(pdf_lines)
  /\ ~SomePageIsNone
  /\ pdf_df' \in SortedFrames(pdf_transactions)
  /\ pdf_pc' = "done"
  /\ UNCHANGED <<pdf_pages, pdf_now, statement_year, pdf_lines, line_no,
                 pdf_transactions, pdf_from, pdfRest>>

\* the loop comes to a page without text: line 60 raises, and the
\* exception leaves extract_transactions
PageRaises ==
  /\ pdf_pc = "lines"
  /\ line_no = Len(pdf_lines)
  /\ SomePageIsNone
  /\ pdf_pc' = "raised"
  /\ UNCHANGED <<pdf_pages, pdf_now, statement_year, pdf_lines, line_no,
                 pdf_transactions, pdf_from, pdf_df, pdfRest>>

NextPdf ==
  \/ OpenStatement
  \/ ProcessLine
  \/ BuildFrame
  \/ PageRaises

SpecPdf == InitPdf /\ [][NextPdf]_vars

\* a token of the form MM/DD: two digits, a slash, two digits
IsMonthDay(token) ==
  Len(token) = 5 /\ DigitsAt(token, 1, 2) /\ token[3] = "/"
    /\ DigitsAt(token, 4, 2)

\* the amount candidate of a token: '$' and ',' removed
AmountCandidate(token) == Remove(Remove(token, "$"), ",")

\* -?\d+\.\d{2}: an optional sign, k >= 1 digits, a dot, two digits
AmountShape(amount) ==
  LET body == IF amount # <<>> /\ Head(amount) = "-" THEN Tail(amount)
              ELSE amount
  IN  \E k \in 1..Len(body) :
        /\ Len(body) = k + 3
        /\ \A i \in 1..k : body[i] \in Digits
        /\ body[k + 1] = "."
        /\ body[k + 2] \in Digits /\ body[k + 3] \in Digits

\* the records the line numbered k has given
RecordsOf(k) == { j \in DOMAIN pdf_from : pdf_from[j] = k }

\* C11: a line whose first token is MM/DD, with at least 3 tokens and a
\* valid amount as its last token, gives exactly one record: the ISO date
\* of MM/DD in the reference year, the tokens between the first and the
\* last joined by single spaces, the value of the last token.
C11_RecordContent ==
  \A k \in 1..line_no :
    LET parts == Split(pdf_lines[k])
    IN  ( /\ Len(parts) >= 3
          /\ IsMonthDay(parts[1])
          /\ AmountShape(AmountCandidate(parts[Len(parts)])) )
        => /\ Cardinality(RecordsOf(k)) = 1
           /\ \A j \in RecordsOf(k) :
                /\ pdf_transactions[j].date =
                     Str(statement_year) \o << "-" >> \o SubSeq(parts[1], 1, 2)
                       \o << "-" >> \o SubSeq(parts[1], 4, 5)
                /\ pdf_transactions[j].description =
                     Join(SubSeq(parts, 2, Len(parts) - 1), << " " >>)
                /\ pdf_transactions[j].amount =
                     Float(AmountCandidate(parts[Len(parts)]))

\* C12: a record is emitted for a line only if the first token of the line
\* is exactly of the form MM/DD.
C12_CandidateRule ==
  \A j \in DOMAIN pdf_from :
    LET parts == Split(pdf_lines[pdf_from[j]])
    IN  parts # <<>> /\ IsMonthDay(parts[1])

\* C13: a line with fewer than 3 tokens, or whose last token without '$'
\* and ',' is not of the shape -?digits.two-digits, gives no record; every
\* record's amount comes from a token of that shape; and the lines after a
\* discarded one are still gone through, up to the returned frame.
C13_StrictAmount ==
  /\ \A k \in 1..line_no :
       LET parts == Split(pdf_lines[k])
       IN  ( Len(parts) < 3
             \/ ~AmountShape(AmountCandidate(parts[Len(parts)])) )
           => RecordsOf(k) = {}
  /\ \A j \in DOMAIN pdf_transactions :
       LET parts == Split(pdf_lines[pdf_from[j]])
       IN  /\ AmountShape(AmountCandidate(parts[Len(parts)]))
           /\ pdf_transactions[j].amount =
                Float(AmountCandidate(parts[Len(parts)]))
  /\ pdf_pc = "done" =>
       /\ line_no = Len(pdf_lines)
       /\ Len(pdf_df) = Len(pdf_transactions)
       /\ \A i \in DOMAIN pdf_df :
            \E j \in DOMAIN pdf_transactions :
              pdf_df[i].amount = pdf_transactions[j].amount

\* a candidate line with a malformed amount was discarded, and a later line
\* of the same page gave its record
C13_Witness ==
  /\ pdf_pc = "done"
  /\ \E k \in 1..Len(pdf_lines) :
       LET parts == Split(pdf_lines[k])
       IN  /\ MatchesDatePrefix(Strip(pdf_lines[k]))
           /\ Len(parts) >= 3
           /\ ~AmountShape(AmountCandidate(parts[Len(parts)]))
           /\ RecordsOf(k) = {}
           /\ \E k2 \in (k + 1)..Len(pdf_lines) : RecordsOf(k2) # {}

\* the lines of the pages that have text
TextLines ==
  LET of(p) == IF pdf_pages[p] = None THEN <<>>
               ELSE SplitOn(pdf_pages[p], "\n")
  IN  of(1) \o of(2)

\* C25: extract_transactions never ends with an exception; a line that
\* cannot be parsed and a page without text give no record, and every valid
\* transaction line of the other pages has its record in the frame returned.
C25_NeverAborts ==
  /\ pdf_pc # "raised"
  /\ pdf_pc = "done" =>
       /\ pdf_lines = TextLines
       /\ line_no = Len(pdf_lines)
       /\ \A k \in DOMAIN pdf_lines :
            Len(LineRecords(pdf_lines[k], statement_year))
              = Cardinality(RecordsOf(k))
       /\ Len(pdf_df) = Len(pdf_transactions)

\* C26: every record has a date, and it is the day MM/DD of the reference
\* year, a day of the calendar, where MM/DD is the whole first token of the
\* record's line; no record has a missing date or one read as DD/MM.
C26_ValidDates ==
  /\ \A j \in DOMAIN pdf_transactions :
       LET parts == Split(pdf_lines[pdf_from[j]])
           date == pdf_transactions[j].date
       IN  /\ date # None
           /\ IsMonthDay(parts[1])
           /\ LET month == ToInt(SubSeq(parts[1], 1, 2))
                  day == ToInt(SubSeq(parts[1], 4, 5))
              IN  /\ month \in 1..12
                  /\ day \in 1..DaysInMonth(statement_year, month)
                  /\ date = Str(statement_year) \o << "-" >>
                              \o SubSeq(parts[1], 1, 2) \o << "-" >>
                              \o SubSeq(parts[1], 4, 5)
  /\ pdf_pc = "done" =>
       \A i \in DOMAIN pdf_df : pdf_df[i].date \notin { None, NaN, NaT }

\* the order of the records by date in which records of one date keep the
\* order of the pages and lines
StableOrder ==
  LET n == Len(pdf_transactions)
      key(i) == DateKey(ToDatetime(pdf_transactions[i].date))
  IN  CHOOSE f \in [ 1..n -> 1..n ] :
        /\ \A i, j \in 1..n : i # j => f[i] # f[j]
        /\ \A i, j \in 1..n :
             i < j => \/ key(f[i]) < key(f[j])
                      \/ key(f[i]) = key(f[j]) /\ f[i] < f[j]

\* C27: the frame returned holds the records collected over the pages, each
\* once, by date ascending, those of one date in the order they were read.
C27_StableDateOrder ==
  pdf_pc = "done" =>
    /\ Len(pdf_df) = Len(pdf_transactions)
    /\ \A i \in DOMAIN pdf_df :
         /\ pdf_df[i].description = pdf_transactions[StableOrder[i]].description
         /\ pdf_df[i].amount = pdf_transactions[StableOrder[i]].amount
         /\ pdf_transactions[StableOrder[i]].date # None =>
              pdf_df[i].date = pdf_transactions[StableOrder[i]].date

(***************************************************************************)
(* The issuer cleaners: clean_data and prepare_data_for_db of              *)
(* ChaseTransactions, AmexTransactions, AppleTransactions and              *)
(* CitiTransactions, on the frame read_files has concatenated.             *)
(***************************************************************************)

\* bound: the rows of the concatenated frame
MaxCsvRows == 2

FoodAndDrink == <<"F","o","o","d"," ","&"," ","D","r","i","n","k">>
Restaurants == <<"R","e","s","t","a","u","r","a","n","t","s">>
Payment == <<"P","a","y","m","e","n","t">>
AmexCard == <<"A","m","e","x"," ","C","a","r","d">>
AppleCard == <<"A","p","p","l","e"," ","C","a","r","d">>
CitiCard == <<"C","i","t","i"," ","C","a","r","d">>
AmazonRefund == <<"A","M","A","Z","O","N"," ","R","E","F","U","N","D">>
RefundPayment == <<"R","E","F","U","N","D"," ","P","A","Y","M","E","N","T">>

Issuers == { "Chase", "Amex", "Apple", "Citi" }

\* a row of a source file: the date, description and amount columns (the
\* amount in cents) and, where the file has one, the category column, NaN
\* for an empty cell
CsvRow(d, m, a, c) ==
  [ transaction_date |-> d, merchant_name |-> m, amount |-> a, category |-> c ]

CsvRows ==
  { CsvRow("2024-12-15", Zed, 4250, Shopping),
    CsvRow("2024-12-15", Zed, 4250, NaN),
    CsvRow("2024-12-16", Zed, -475, FoodAndDrink),
    CsvRow("2024-12-15", AmazonRefund, 4250, Other),
    CsvRow("2024-12-15", RefundPayment, 4250, Other),
    CsvRow("2024-12-15", Zed, 4250, Other) }

\* pd.concat(dataframes): the rows of the files, one or more
CsvFrames == SeqsUpTo(CsvRows, MaxCsvRows) \ { <<>> }

\* self._category_cache when clean_data runs: empty on a processor that has
\* not yet called add_to_database, the loaded keys afterwards; and what the
\* model does when invoked
CleanEnvs ==
  [ cache_keys : { <<>>, << Lower(Shopping) >> },
    response : { LlmRaises, LlmSays(Lower(Shopping)) } ]

\* Series.replace({"Food & Drink": "Restaurants", "": "Payment"})
ChaseReplace(category) ==
  IF category = FoodAndDrink THEN Restaurants
  ELSE IF category = <<>> THEN Payment
  ELSE category

\* ChaseTransactions.clean_data, were line 77 to make every amount negative:
\* -abs(amount)
ChaseCleanAllNegative(df, person) ==
  [ i \in DOMAIN df |->
      [ transaction_date |-> df[i].transaction_date,
        amount |-> IF df[i].amount > 0 THEN (-1) * df[i].amount
                   ELSE df[i].amount,
        merchant_name |-> df[i].merchant_name,
        category |-> ChaseReplace(df[i].category),
        person |-> person ] ]

\* ChaseTransactions.clean_data without the sign change of line 77
ChaseCleanUnsigned(df, person) ==
  [ i \in DOMAIN df |->
      [ transaction_date |-> df[i].transaction_date,
        amount |-> df[i].amount,
        merchant_name |-> df[i].merchant_name,
        category |-> ChaseReplace(df[i].category),
        person |-> person ] ]

\* ChaseTransactions.clean_data, lines 60-80: the columns renamed and
\* selected, the amount negated, the category values replaced
ChaseClean(df, person) ==
  [ i \in DOMAIN df |->
      [ transaction_date |-> df[i].transaction_date,
        amount |-> (-1) * df[i].amount,
        merchant_name |-> df[i].merchant_name,
        category |-> ChaseReplace(df[i].category),
        person |-> person ] ]

\* the category of row i when the two rules of add_category have run
AfterRules(has_category, df, i) ==
  PaymentRule(df[i].merchant_name,
    RefundRule(df[i].merchant_name,
      IF has_category THEN df[i].category ELSE Other))

\* the rows add_category calls guess_category_openai for, in order
OtherRows(has_category, df) ==
  SelectSeq([ i \in DOMAIN df |-> i ],
            LAMBDA i : AfterRules(has_category, df, i) = Other)

\* the category column add_category leaves
Categorized(has_category, df, env) ==
  add_category(TRUE, [ i \in DOMAIN df |-> env.response ],
               [ has_category |-> has_category,
                 rows |-> [ i \in DOMAIN df |->
                              [ merchant_name |-> df[i].merchant_name,
                                category |-> df[i].category ] ] ],
               env.cache_keys)

\* AmexTransactions.clean_data, lines 60-85, and CitiTransactions.clean_data,
\* lines 60-114: no category column in the file; the frame that is left has
\* no person column
AmexClean(df, env) ==
  [ i \in DOMAIN df |->
      [ transaction_date |-> df[i].transaction_date,
        amount |-> df[i].amount,
        merchant_name |-> df[i].merchant_name,
        category |-> Categorized(FALSE, df, env)[i].category ] ]

\* the rows AppleTransactions.clean_data asks the classifier about a second
\* time: those whose category is not a key of the cache
InvalidRows(df, env) ==
  SelectSeq([ i \in DOMAIN df |-> i ],
            LAMBDA i : Categorized(TRUE, df, env)[i].category
                         \notin Range(env.cache_keys))

\* AppleTransactions.clean_data, lines 65-108
AppleClean(df, env, person) ==
  [ i \in DOMAIN df |->
      LET category == Categorized(TRUE, df, env)[i].category
          ai_category == guess_category_openai(TRUE, env.response,
                           df[i].merchant_name, env.cache_keys)
      IN  [ transaction_date |-> df[i].transaction_date,
            amount |-> df[i].amount,
            merchant_name |-> df[i].merchant_name,
            category |-> IF category \notin Range(env.cache_keys)
                            /\ ai_category # Other
                         THEN ai_category ELSE category,
            person |-> person ] ]

\* the merchant names the model is invoked with when guess_category_openai
\* is called for these rows, in order: it returns 'Other' at once when the
\* list of categories is empty
CallsFor(df, rows, env) ==
  IF env.cache_keys = <<>> THEN <<>>
  ELSE [ k \in DOMAIN rows |-> df[rows[k]].merchant_name ]

\* row['transaction_date'].strftime('%Y-%m-%d %H:%M:%S') of a date
DateTimeString(date) == << date, "00:00:00" >>

\* prepare_data_for_db of Chase (lines 90-101) and Amex (lines 95-106): the
\* row's values as they are
PrepareAsIs(clean, person, account_type) ==
  [ i \in DOMAIN clean |->
      [ transaction_date |-> clean[i].transaction_date,
        amount |-> clean[i].amount,
        merchant_name |-> clean[i].merchant_name,
        category |-> clean[i].category,
        person |-> person,
        account_type |-> account_type ] ]

\* prepare_data_for_db of Apple, lines 120-133
PrepareApple(clean, person) ==
  [ i \in DOMAIN clean |->
      [ transaction_date |-> DateTimeString(clean[i].transaction_date),
        amount |-> clean[i].amount,
        merchant_name |-> clean[i].merchant_name,
        category |-> clean[i].category,
        account_type |-> AppleCard,
        person |-> person ] ]

InitClean ==
  /\ cl_pc = "read"
  /\ cl_issuer \in Issuers
  /\ cl_df \in CsvFrames
  /\ cl_env \in CleanEnvs
  /\ cl_clean = <<>>
  /\ cl_calls = <<>>
  /\ cl_out = <<>>
  /\ IdleAI
  /\ IdleYear
  /\ IdleProc
  /\ IdleDB
  /\ IdlePdf
  /\ IdleGc
  /\ IdleRace
  /\ IdleInst
  /\ IdleVend

ChaseCleanData ==
  /\ cl_pc = "read"
  /\ cl_issuer = "Chase"
  /\ cl_clean' = ChaseClean(cl_df, Hector)
  /\ cl_pc' = "cleaned"
  /\ UNCHANGED <<cl_issuer, cl_df, cl_env, cl_calls, cl_out, cleanRest>>

AmexCleanData ==
  /\ cl_pc = "read"
  /\ cl_issuer = "Amex"
  /\ cl_clean' = AmexClean(cl_df, cl_env)
  /\ cl_calls' = CallsFor(cl_df, OtherRows(FALSE, cl_df), cl_env)
  /\ cl_pc' = "cleaned"
  /\ UNCHANGED <<cl_issuer, cl_df, cl_env, cl_out, cleanRest>>

AppleCleanData ==
  /\ cl_pc = "read"
  /\ cl_issuer = "Apple"
  /\ cl_clean' = AppleClean(cl_df, cl_env, Hector)
  /\ cl_calls' = CallsFor(cl_df, OtherRows(TRUE, cl_df), cl_env)
                   \o CallsFor(cl_df, InvalidRows(cl_df, cl_env), cl_env)
  /\ cl_pc' = "cleaned"
  /\ UNCHANGED <<cl_issuer, cl_df, cl_env, cl_out, cleanRest>>

CitiCleanData ==
  /\ cl_pc = "read"
  /\ cl_issuer = "Citi"
  /\ cl_clean' = AmexClean(cl_df, cl_env)
  /\ cl_calls' = CallsFor(cl_df, OtherRows(FALSE, cl_df), cl_env)
  /\ cl_pc' = "cleaned"
  /\ UNCHANGED <<cl_issuer, cl_df, cl_env, cl_out, cleanRest>>

ChasePrepare ==
  /\ cl_pc = "cleaned"
  /\ cl_issuer = "Chase"
  /\ cl_out' = PrepareAsIs(cl_clean, Hector, ChaseCard)
  /\ cl_pc' = "prepared"
  /\ UNCHANGED <<cl_issuer, cl_df, cl_env, cl_clean, cl_calls, cleanRest>>

AmexPrepare ==
  /\ cl_pc = "cleaned"
  /\ cl_issuer = "Amex"
  /\ cl_out' = PrepareAsIs(cl_clean, Hector, AmexCard)
  /\ cl_pc' = "prepared"
  /\ UNCHANGED <<cl_issuer, cl_df, cl_env, cl_clean, cl_calls, cleanRest>>

ApplePrepare ==
  /\ cl_pc = "cleaned"
  /\ cl_issuer = "Apple"
  /\ cl_out' = PrepareApple(cl_clean, Hector)
  /\ cl_pc' = "prepared"
  /\ UNCHANGED <<cl_issuer, cl_df, cl_env, cl_clean, cl_calls, cleanRest>>

\* CitiTransactions.prepare_data_for_db, line 134: row['person'] of a frame
\* that has no person column raises KeyError on the first row
CitiPrepare ==
  /\ cl_pc = "cleaned"
  /\ cl_issuer = "Citi"
  /\ cl_pc' = "raised"
  /\ UNCHANGED <<cl_issuer, cl_df, cl_env, cl_clean, cl_calls, cl_out,
                 cleanRest>>

NextClean ==
  \/ ChaseCleanData
  \/ AmexCleanData
  \/ AppleCleanData
  \/ CitiCleanData
  \/ ChasePrepare
  \/ AmexPrepare
  \/ ApplePrepare
  \/ CitiPrepare

SpecClean == InitClean /\ [][NextClean]_vars

RowKey(row) == << row.transaction_date, row.merchant_name, row.amount >>

\* C15: rows identical in (date, description, amount) reach persistence as
\* one record, and the classifier is not called for the duplicate.
C15_DedupInCleaning ==
  /\ cl_pc = "prepared" =>
       \A i, j \in DOMAIN cl_out :
         RowKey(cl_out[i]) = RowKey(cl_out[j]) => i = j
  /\ Len(cl_calls) <= Cardinality({ RowKey(cl_df[i]) : i \in DOMAIN cl_df })

\* C16: every record handed to add_to_database has a category that is a
\* string, never None or NaN.
C16_CategoryNeverNull ==
  cl_pc = "prepared" =>
    \A i \in DOMAIN cl_out : cl_out[i].category \notin { None, NaN }

\* the category the two rules of add_category (Apple, Amex) or of lines
\* 82-92 of CitiTransactions.clean_data give row i of the frame read
Tier1(i) == AfterRules(cl_issuer = "Apple", cl_df, i)

\* C21: a row that the refund/return rule or the payment rule has set to
\* 'Refunds & Returns' or 'Payments' leaves clean_data with that category,
\* and the model is never invoked with its merchant name; the model is
\* invoked only for rows the rules left at 'Other' or without a category.
C21_FirstHitWins ==
  cl_pc \in { "cleaned", "prepared" } /\ cl_issuer # "Chase" =>
    /\ \A i \in DOMAIN cl_df :
         Tier1(i) \in { RefundsAndReturns, Payments } =>
           /\ cl_clean[i].category = Tier1(i)
           /\ cl_df[i].merchant_name \notin Range(cl_calls)
    /\ \A k \in DOMAIN cl_calls :
         \E i \in DOMAIN cl_df :
           /\ cl_df[i].merchant_name = cl_calls[k]
           /\ Tier1(i) \in { Other, NaN, None }

\* C23: with every issuer, a row whose merchant name has 'payment' in it
\* leaves clean_data with the category 'Payments', and one that has 'refund'
\* or 'return' in it (and not 'payment') with 'Refunds & Returns', whatever
\* the category column of the file said.
C23_Tier1Overrides ==
  cl_pc \in { "cleaned", "prepared" } =>
    \A i \in DOMAIN cl_df :
      LET tier1 == PaymentRule(cl_df[i].merchant_name,
                     RefundRule(cl_df[i].merchant_name, Other))
      IN  tier1 # Other => cl_clean[i].category = tier1

\* the fields of a canonical transaction
CanonicalFields ==
  { "transaction_date", "amount", "merchant_name", "category", "person",
    "account_type" }

\* C28: with every issuer, clean_data and then prepare_data_for_db end
\* without an exception, and the list returned has one record for each
\* cleaned row, with the six canonical fields.
C28_EveryVariantCompletes ==
  /\ cl_pc # "raised"
  /\ cl_pc = "prepared" =>
       /\ Len(cl_out) = Len(cl_clean)
       /\ Len(cl_out) = Len(cl_df)
       /\ \A i \in DOMAIN cl_out : DOMAIN cl_out[i] = CanonicalFields

Answer(i) ==
  guess_category_openai(TRUE, cl_env.response, cl_df[i].merchant_name,
                        cl_env.cache_keys)

\* C30: in add_category (as AmexTransactions.clean_data runs it) and in
\* CitiTransactions.clean_data the payment rule comes after the
\* refund/return rule: a row whose merchant name has 'payment' in it, with
\* or without a refund keyword, is left with 'Payments'; and when the
\* classifier answers 'Other' the category the rules gave stays.
C30_PaymentRuleLast ==
  cl_pc \in { "cleaned", "prepared" } /\ cl_issuer \in { "Amex", "Citi" } =>
    \A i \in DOMAIN cl_df :
      /\ Contains(Lower(Payment), Lower(cl_df[i].merchant_name)) =>
           cl_clean[i].category = Payments
      /\ Answer(i) = Other => cl_clean[i].category = Tier1(i)
      /\ Tier1(i) # Other => cl_clean[i].category = Tier1(i)

\* C30: CitiTransactions.clean_data has resolved a row named with 'REFUND'
\* and 'PAYMENT' to 'Payments', and has left a refund row at 'Refunds &
\* Returns' after the classifier answered 'Other'
C30_Witness ==
  /\ cl_issuer = "Citi"
  /\ cl_pc = "cleaned"
  /\ \E i \in DOMAIN cl_df :
       /\ HasRefundKeyword(cl_df[i].merchant_name)
       /\ Contains(Lower(Payment), Lower(cl_df[i].merchant_name))
       /\ cl_clean[i].category = Payments
  /\ \E i \in DOMAIN cl_df :
       /\ Answer(i) = Other
       /\ cl_clean[i].category = RefundsAndReturns

(***************************************************************************)
(* The outcomes of add_to_database and the connections of the persistence  *)
(* layer: the calls of SpecDB, with records that are not well formed, a    *)
(* server that cannot be reached, and get_categories_from_db.              *)
(***************************************************************************)

\* the transactions the callers pass here: a well-formed one, and one whose
\* category is the NaN of an empty cell
Records == { Txn(-4250, Shopping), Txn(-4250, NaN) }

\* the lists a SELECT without ORDER BY can return for a set of values
Orderings(S) ==
  { f \in [ 1..Cardinality(S) -> S ] :
      \A i, j \in 1..Cardinality(S) : i # j => f[i] # f[j] }

InitConn ==
  /\ \/ t_categories = {} /\ seq = [ categories |-> 0, persons |-> 0,
                                     account_type |-> 0 ]
     \/ t_categories = { [ id |-> 1, name |-> Shopping ] }
        /\ seq = [ categories |-> 1, persons |-> 0, account_type |-> 0 ]
  /\ t_persons = {} /\ t_account_type = {}
  /\ t_transactions = EmptyBag
  /\ w_categories = {} /\ w_persons = {} /\ w_account_type = {}
  /\ w_transactions = EmptyBag
  /\ category_cache = <<>> /\ person_cache = <<>>
  /\ account_type_cache = <<>>
  /\ db_pc = "idle"
  /\ batch = <<>>
  /\ idx = 0
  /\ ids = <<>>
  /\ db_result = "none"
  /\ runs = 0
  /\ pre = <<>>
  /\ last_batch = {}
  /\ repeat = FALSE
  /\ conn = "none"
  /\ inputs = Records
  /\ IdleAI
  /\ IdleYear
  /\ IdleProc
  /\ IdlePdf
  /\ IdleClean
  /\ IdleGc
  /\ IdleRace
  /\ IdleInst
  /\ IdleVend

\* create_connection, lines 99-103: psycopg2.connect raises, and the
\* exception is wrapped; add_to_database has not entered its try block
ConnectFails ==
  /\ db_pc = "idle"
  /\ gc_pc = "idle"
  /\ runs < MaxRuns
  /\ \E transactions \in SeqsUpTo(inputs, MaxBatch) :
       /\ batch' = transactions
       /\ repeat' = (transactions \in last_batch)
  /\ runs' = runs + 1
  /\ pre' = dbStore
  /\ db_result' = "Database connection error"
  /\ db_pc' = "raised"
  /\ UNCHANGED <<dbStore, seq, dbWork, dbCache, idx, ids, last_batch, conn,
                 inputs, aiVars, yrVars, procVars, extVars>>

\* transaction['category'].lower() on a value that is no string raises
\* AttributeError, which `except psycopg2.Error` does not catch: the finally
\* clause closes the connection, the server drops its open transaction, and
\* the exception leaves add_to_database as it is
RecordError ==
  /\ db_pc = "category"
  /\ batch[idx + 1].category \in { None, NaN }
  /\ w_categories' = t_categories
  /\ w_persons' = t_persons
  /\ w_account_type' = t_account_type
  /\ w_transactions' = t_transactions
  /\ db_result' = "AttributeError"
  /\ db_pc' = "raised"
  /\ conn' = "closed"
  /\ UNCHANGED <<dbStore, seq, dbCache, batch, idx, ids, runs, pre,
                 last_batch, repeat, inputs, aiVars, yrVars, procVars,
                 extVars>>

\* a statement fails because the server is gone, and so does conn.rollback()
\* in the except clause: its psycopg2.Error leaves add_to_database in place
\* of the wrapped exception; the finally clause closes the connection
RollbackFails ==
  /\ db_pc \in { "load", "category", "person", "account_type", "insert",
                 "commit" }
  /\ w_categories' = t_categories
  /\ w_persons' = t_persons
  /\ w_account_type' = t_account_type
  /\ w_transactions' = t_transactions
  /\ db_result' = "psycopg2.Error"
  /\ db_pc' = "raised"
  /\ conn' = "closed"
  /\ UNCHANGED <<dbStore, seq, dbCache, batch, idx, ids, runs, pre,
                 last_batch, repeat, inputs, aiVars, yrVars, procVars,
                 extVars>>

\* get_categories_from_db, line 192: psycopg2.connect succeeds
GcConnect ==
  /\ gc_pc = "idle"
  /\ db_pc = "idle"
  /\ gc_conn' = "open"
  /\ gc_out' = <<>>
  /\ gc_pc' = "connected"
  /\ UNCHANGED gcRest

\* line 192 raises: the except clause prints and returns []
GcConnectFails ==
  /\ gc_pc = "idle"
  /\ db_pc = "idle"
  /\ gc_conn' = "none"
  /\ gc_out' = <<>>
  /\ gc_pc' = "returned"
  /\ UNCHANGED gcRest

\* lines 193-198: the SELECT, cursor.close(), conn.close(), return
GcFetch ==
  /\ gc_pc = "connected"
  /\ gc_out' \in Orderings({ r.name : r \in t_categories })
  /\ gc_conn' = "closed"
  /\ gc_pc' = "returned"
  /\ UNCHANGED gcRest

\* cursor.execute or fetchall raises: the except clause of lines 199-201
\* prints and returns [], and nothing closes the connection
GcQueryFails ==
  /\ gc_pc = "connected"
  /\ gc_out' = <<>>
  /\ gc_pc' = "returned"
  /\ UNCHANGED <<gc_conn, gcRest>>

\* the caller has the list
GcReturns ==
  /\ gc_pc = "returned"
  /\ gc_pc' = "idle"
  /\ UNCHANGED <<gc_conn, gc_out, gcRest>>

NextConn ==
  \/ Connect
  \/ ConnectFails
  \/ LoadReferenceData
  \/ GetOrCreateCategory
  \/ GetOrCreatePerson
  \/ GetOrCreateAccountType
  \/ InsertTransaction
  \/ Commit
  \/ StorageError
  \/ RollbackFails
  \/ RecordError
  \/ AddReturns
  \/ GcConnect
  \/ GcConnectFails
  \/ GcFetch
  \/ GcQueryFails
  \/ GcReturns

SpecConn == InitConn /\ [][NextConn]_vars

\* C17: add_to_database either commits the whole batch and returns True, or
\* raises an exception that wraps the cause; every failure inside the batch
\* comes out as 'Database insertion error: ...'.
C17_Outcome ==
  /\ db_pc = "returned" => db_result = "True" /\ dbStore = dbWork
  /\ db_pc = "raised" =>
       db_result \in { "Database insertion error",
                       "Database connection error" }
  /\ db_pc = "raised" /\ conn # "none" =>
       db_result = "Database insertion error"

\* C18: when a call of add_to_database or get_categories_from_db has ended,
\* on any path, the connection it opened is closed.
C18_ScopedConnections ==
  /\ db_pc \in { "returned", "raised" } => conn # "open"
  /\ gc_pc = "returned" => gc_conn # "open"


-----------------------------------------------------------------------------
(* Two add_to_database calls at the same time, each on its own connection  *)
(* and with its own caches (src/add_transactions.py, lines 33-61, 110-160) *)

\* the two callers
Workers == { 1, 2 }

\* the most transactions in a concurrent batch
MaxRaceBatch == 2

\* the category names of the concurrent batches
RaceCategories == { Shopping, Payments }

\* the category rows with this name in a set of rows
Named(rows, name) == { r \in rows : r.name = name }

\* the category the worker's next transaction names
RaceCategory(w) == r_batch[w][r_idx[w] + 1]

\* worker w is at an INSERT of a category that the open transaction of
\* worker v has inserted and not yet committed: the unique index makes w
\* wait for the end of v's transaction
WaitsFor(w, v) ==
  /\ w # v
  /\ r_pc[w] = "category"
  /\ Lower(RaceCategory(w)) \notin DOMAIN r_cache[w]
  /\ Named(r_categories, RaceCategory(w)) = {}
  /\ Named(r_work[v], RaceCategory(w)) # {}

\* a store without categories, where the person and the account type of the
\* batches already are (lines 131-132 are then cache hits), and two callers
\* with a batch each
InitRace ==
  /\ r_categories = {}
  /\ r_transactions = {}
  /\ r_seq = 0
  /\ r_pc = [ w \in Workers |-> "idle" ]
  /\ r_batch \in [ Workers -> SeqsUpTo(RaceCategories, MaxRaceBatch) \ { <<>> } ]
  /\ r_idx = [ w \in Workers |-> 0 ]
  /\ r_cache = [ w \in Workers |-> <<>> ]
  /\ r_work = [ w \in Workers |-> {} ]
  /\ r_rows = [ w \in Workers |-> {} ]
  /\ r_result = [ w \in Workers |-> "none" ]
  /\ IdleAI
  /\ IdleYear
  /\ IdleProc
  /\ IdleDB
  /\ IdlePdf
  /\ IdleClean
  /\ IdleGc
  /\ IdleInst
  /\ IdleVend

\* lines 119-123: create_connection and _load_reference_data, whose SELECT
\* sees the rows committed so far
RaceLoad(w) ==
  /\ r_pc[w] = "idle"
  /\ r_cache' \in { [ r_cache EXCEPT ![w] = c ] : c \in Caches(r_categories) }
  /\ r_pc' = [ r_pc EXCEPT ![w] = "category" ]
  /\ UNCHANGED <<r_categories, r_transactions, r_seq, r_batch, r_idx, r_work,
                 r_rows, r_result, raceRest>>

\* _get_or_create_category, lines 51-61: a cache hit, or an INSERT that no
\* row of the same name, committed or pending in the other transaction,
\* stands against
RaceGetOrCreateCategory(w) ==
  /\ r_pc[w] = "category"
  /\ LET category == RaceCategory(w)
         category_lower == Lower(category)
     IN  IF category_lower \notin DOMAIN r_cache[w]
         THEN /\ Named(r_categories, category) = {}
              /\ \A v \in Workers : ~WaitsFor(w, v)
              /\ r_seq' = r_seq + 1
              /\ r_work' = [ r_work EXCEPT ![w] =
                   @ \cup { [ id |-> r_seq + 1, name |-> category ] } ]
              /\ r_cache' = [ r_cache EXCEPT ![w] =
                   Put(@, category_lower, r_seq + 1) ]
         ELSE UNCHANGED <<r_seq, r_work, r_cache>>
  /\ r_pc' = [ r_pc EXCEPT ![w] = "insert" ]
  /\ UNCHANGED <<r_categories, r_transactions, r_batch, r_idx, r_rows,
                 r_result, raceRest>>

\* lines 156-160, the rollback and the raise after a psycopg2.Error
RaceRollback(w) ==
  /\ r_work' = [ r_work EXCEPT ![w] = {} ]
  /\ r_rows' = [ r_rows EXCEPT ![w] = {} ]
  /\ r_result' = [ r_result EXCEPT ![w] = "Database insertion error" ]
  /\ r_pc' = [ r_pc EXCEPT ![w] = "raised" ]
  /\ UNCHANGED <<r_categories, r_transactions, r_seq, r_batch, r_idx, r_cache,
                 raceRest>>

\* the INSERT of lines 55-59 meets a committed row of the same name, which
\* the cache loaded earlier does not have: the unique constraint on
\* category_name raises UniqueViolation, a psycopg2.Error
RaceUniqueViolation(w) ==
  /\ r_pc[w] = "category"
  /\ Lower(RaceCategory(w)) \notin DOMAIN r_cache[w]
  /\ Named(r_categories, RaceCategory(w)) # {}
  /\ RaceRollback(w)

\* each transaction waits for the other's pending row: the store ends one
\* of them with DeadlockDetected, a psycopg2.Error
RaceDeadlock(w) ==
  /\ \E v \in Workers : WaitsFor(w, v) /\ WaitsFor(v, w)
  /\ RaceRollback(w)

\* lines 131-152: person and account type from the cache, and the INSERT of
\* the transaction with the category id of the cache
RaceInsertTransaction(w) ==
  /\ r_pc[w] = "insert"
  /\ r_rows' = [ r_rows EXCEPT ![w] = @ \cup
       { [ worker |-> w, k |-> r_idx[w] + 1,
           category_id |-> r_cache[w][Lower(RaceCategory(w))] ] } ]
  /\ r_idx' = [ r_idx EXCEPT ![w] = @ + 1 ]
  /\ r_pc' = [ r_pc EXCEPT ![w] =
       IF r_idx[w] + 1 < Len(r_batch[w]) THEN "category" ELSE "commit" ]
  /\ UNCHANGED <<r_categories, r_transactions, r_seq, r_batch, r_cache, r_work,
                 r_result, raceRest>>

\* lines 154-155: conn.commit() and return True
RaceCommit(w) ==
  /\ r_pc[w] = "commit"
  /\ r_categories' = r_categories \cup r_work[w]
  /\ r_transactions' = r_transactions \cup r_rows[w]
  /\ r_work' = [ r_work EXCEPT ![w] = {} ]
  /\ r_rows' = [ r_rows EXCEPT ![w] = {} ]
  /\ r_result' = [ r_result EXCEPT ![w] = "True" ]
  /\ r_pc' = [ r_pc EXCEPT ![w] = "returned" ]
  /\ UNCHANGED <<r_seq, r_batch, r_idx, r_cache, raceRest>>

NextRace ==
  \/ \E w \in Workers : RaceLoad(w)
  \/ \E w \in Workers : RaceGetOrCreateCategory(w)
  \/ \E w \in Workers : RaceUniqueViolation(w)
  \/ \E w \in Workers : RaceDeadlock(w)
  \/ \E w \in Workers : RaceInsertTransaction(w)
  \/ \E w \in Workers : RaceCommit(w)

SpecRace == InitRace /\ [][NextRace]_vars

\* a category both batches name
SharedCategories == { r_batch[1][i] : i \in DOMAIN r_batch[1] } \cap
                    { r_batch[2][i] : i \in DOMAIN r_batch[2] }

\* C19: when two concurrent batches both need a category that the store does
\* not have, both calls end with True, every transaction of both batches is
\* committed, and the store has exactly one row for the category.
C19_RaceReconciled ==
  (/\ \A w \in Workers : r_pc[w] \in { "returned", "raised" }
   /\ SharedCategories # {})
  => /\ \A w \in Workers :
          /\ r_result[w] = "True"
          /\ \A k \in DOMAIN r_batch[w] :
               \E t \in r_transactions : t.worker = w /\ t.k = k
     /\ \A c \in SharedCategories :
          Cardinality(Named(r_categories, c)) = 1


-----------------------------------------------------------------------------
(* One processor over its life: clean_data consulting the classifier, and  *)
(* add_to_database loading the caches (add_transactions.py, lines 17-31    *)
(* and 171-180; amex_transactions.py, lines 74-75)                         *)

\* clean_data has a row the rules left at 'Other': add_category calls
\* guess_category_openai(merchant_name, list(category_cache.keys())), with
\* the cache as __init__ or the last add_to_database of this processor left
\* it (process_transactions runs clean_data before add_to_database)
ClassifierCall ==
  /\ db_pc = "idle"
  /\ consulted' = TRUE
  /\ allowed' \in Orderings(DOMAIN category_cache)
  /\ known' = { r.name : r \in t_categories }
  /\ UNCHANGED instRest

NextInst ==
  \/ ClassifierCall
  \/ Connect
  \/ LoadReferenceData
  \/ GetOrCreateCategory
  \/ GetOrCreatePerson
  \/ GetOrCreateAccountType
  \/ InsertTransaction
  \/ Commit
  \/ StorageError
  \/ AddReturns

SpecInst == InitDB /\ [][NextInst]_vars

\* C22: the list of categories clean_data passes to the classifier is the
\* list of the category names the store holds at that time, on the first
\* run of a processor as on the later ones.
C22_ClassifierKnowsCategories ==
  consulted => { allowed[i] : i \in DOMAIN allowed } = known


-----------------------------------------------------------------------------
(* vendor_mapping.py: the table as add_vendor_mapping changes it, and      *)
(* get_category_from_vendor on it                                          *)

AmazonPrime == <<"A","m","a","z","o","n"," ","P","r","i","m","e">>
AmazonPrimeVideo == <<"A","M","A","Z","O","N"," ","P","R","I","M","E"," ","V","I","D","E","O">>
Mbo == <<"m","b","o">>

\* the names add_vendor_mapping is called with
VendorNames == { AmazonPrime, Mbo }

\* the merchant names looked up
VendorMerchants == { AmazonPrime, AmazonPrimeVideo, Mbo, AmazonRefund, Zed }

\* table[key] = value of a dict: the value of an existing key is replaced
\* where it is, a new key goes to the end
DictSet(table, key, value) ==
  IF \E j \in DOMAIN table : table[j][1] = key
  THEN [ j \in DOMAIN table |->
           IF table[j][1] = key THEN << key, value >> ELSE table[j] ]
  ELSE Append(table, << key, value >>)

\* the module has been imported
InitVend ==
  /\ vendor_map = VENDOR_CATEGORY_MAP
  /\ v_pc = "idle"
  /\ v_merchant = <<>>
  /\ v_out = <<>>
  /\ IdleAI
  /\ IdleYear
  /\ IdleProc
  /\ IdleDB
  /\ IdlePdf
  /\ IdleClean
  /\ IdleGc
  /\ IdleRace
  /\ IdleInst

\* add_vendor_mapping, line 156
AddVendorMapping ==
  /\ \E vendor_name \in VendorNames, category \in { Shopping, Payments } :
       vendor_map' = DictSet(vendor_map, Lower(vendor_name), category)
  /\ v_pc' = "idle"
  /\ UNCHANGED <<v_merchant, v_out, vendRest>>

\* get_category_from_vendor, lines 134-145
GetCategoryFromVendor ==
  /\ \E merchant_name \in VendorMerchants :
       /\ v_merchant' = merchant_name
       /\ v_out' = VendorCategory(vendor_map, merchant_name)
  /\ v_pc' = "returned"
  /\ UNCHANGED <<vendor_map, vendRest>>

NextVend ==
  \/ AddVendorMapping
  \/ GetCategoryFromVendor

SpecVend == InitVend /\ [][NextVend]_vars

\* the entries whose key is the lowercased merchant name of the last lookup
ExactEntries ==
  { j \in DOMAIN vendor_map : vendor_map[j][1] = Lower(v_merchant) }

\* the entries whose lowercased pattern occurs in it
PartialEntries ==
  { j \in DOMAIN vendor_map :
      Contains(Lower(vendor_map[j][1]), Lower(v_merchant)) }

\* the first of them in the order of the table
FirstPartial == CHOOSE j \in PartialEntries : \A k \in PartialEntries : j <= k

\* C24, as claimed: a lookup returns the category of the first pattern, in
\* the order of the table, whose lowercase form occurs in the lowercased
\* merchant name, and None when there is none.
C24_FirstMatchInTableOrder ==
  v_pc = "returned" =>
    IF PartialEntries # {} THEN v_out = vendor_map[FirstPartial][2]
    ELSE v_out = None

\* C24, amended: when the lowercased merchant name is itself a key of the
\* table, a lookup returns that key's category; otherwise the category of
\* the first pattern, in the order of the table, whose lowercase form occurs
\* in the lowercased merchant name; and None when there is none.
C24_ExactThenFirstMatch ==
  v_pc = "returned" =>
    IF ExactEntries # {}
    THEN \A j \in ExactEntries : v_out = vendor_map[j][2]
    ELSE IF PartialEntries # {} THEN v_out = vendor_map[FirstPartial][2]
    ELSE v_out = None

\* C24: a lookup has returned the category of a key equal to the merchant
\* name although an earlier pattern of another category occurs in the name
C24_Witness ==
  /\ v_pc = "returned"
  /\ ExactEntries # {}
  /\ FirstPartial \notin ExactEntries
  /\ vendor_map[FirstPartial][2] # v_out
  /\ Len(vendor_map) > Len(VENDOR_CATEGORY_MAP)

====
